---- MODULE Spec2Model ----
(***************************************************************************)
(* Authentication and session-token core of snappie-api-express:          *)
(* registration gate, register, login, the authenticate middleware and    *)
(* logout, over the users table and the personal_access_tokens table.     *)
(*                                                                         *)
(* Every request is handled by a process.  A step of a process is the     *)
(* synchronous code since its previous await together with the store      *)
(* operation it then awaits; the code after the last await of a handler   *)
(* (the response) belongs to the last step.                                *)
(*                                                                         *)
(* Strings the code inspects (headers, keys, emails) are sequences of     *)
(* one-character strings; an absent value (undefined, null) is the empty  *)
(* set and a present value v is {v}.                                       *)
(***************************************************************************)
EXTENDS Integers, Sequences, FiniteSets, TLC

\* ------------------------------------------------------------------ bounds
NProcs == 2
MaxTime == 3
MaxUsers == 2
MaxTokens == 2

\* Session lifetime in clock ticks (one day in the source).
Lifetime == 2

Procs == 1..NProcs
Times == 0..MaxTime

\* ------------------------------------------------------------------ strings
BearerPrefix == <<"B", "e", "a", "r", "e", "r", " ">>

\* String.prototype.startsWith
StartsWith(s, pre) ==
  /\ Len(s) >= Len(pre)
  /\ SubSeq(s, 1, Len(pre)) = pre

\* String.prototype.substring(n): the characters from index n (0-based) on
Substring(s, n) == SubSeq(s, n + 1, Len(s))

LowerChar(c) ==
  CASE c = "A" -> "a"
    [] c = "B" -> "b"
    [] OTHER -> c

\* String.prototype.toLowerCase
toLowerCase(s) == [i \in 1..Len(s) |-> LowerChar(s[i])]

\* !x for an optional string: undefined, null and "" are falsy
Falsy(opt) == opt = {} \/ opt = {<<>>}

\* ------------------------------------------------------------------ inputs
\* Registration keys a deployment may configure: unset, empty, or a key.
ServerKeys == {{}, {<<>>}, {<<"k", "1">>}}

\* Authorization headers sent to POST /register.
GateHeaders ==
  { {},
    {<<>>},
    {<<"B", "a", "s", "i", "c", " ", "k", "1">>},
    {<<"b", "e", "a", "r", "e", "r", " ", "k", "1">>},
    {BearerPrefix},
    {BearerPrefix \o <<"k", "1">>},
    {BearerPrefix \o <<"k", "2">>},
    {BearerPrefix \o <<"k">>},
    {BearerPrefix \o <<"k", "1", "1">>} }

\* The opaque strings crypto.randomBytes produces, in the order produced.
TokenPool == << <<"t1">>, <<"t2">>, <<"t3">>, <<"t4">> >>

\* Authorization headers sent to protected endpoints.
AuthHeaders ==
  { {},
    {<<"B", "a", "s", "i", "c", " ", "t1">>},
    {BearerPrefix},
    {BearerPrefix \o <<"garbage">>} }
  \cup { {BearerPrefix \o TokenPool[i]} : i \in 1..MaxTokens }

\* Bearer strings that verify as JSON Web Tokens of this server, with the
\* payload jwt.verify returns for each: an access token and a refresh token
\* of user 1, and an access token of user 2 (userId: the claim the status
\* and profile handlers read, id: the claim authenticate reads).
JwtPayloads ==
  { [token |-> <<"jwtA1">>, type |-> "access", id |-> 1, userId |-> 1],
    [token |-> <<"jwtR1">>, type |-> "refresh", id |-> 1, userId |-> 1],
    [token |-> <<"jwtA2">>, type |-> "access", id |-> 2, userId |-> 2] }

\* Authorization headers carrying those strings.
JwtHeaders == { {BearerPrefix \o j.token} : j \in JwtPayloads }

Emails == {<<"a">>, <<"A">>, <<"b">>}
Usernames == {"alice", "bob"}
\* <<name, imageUrl>> of a login body; "" stands for a field not sent
LoginProfiles == {<<"", "">>, <<"N2", "i2">>}

Placeholder == "https://via.placeholder.com/150"
UserType == "App\\Models\\User"

\* ------------------------------------------------------------------ state
VARIABLES
  users,      \* rows of the users table
  tokens,     \* rows of personal_access_tokens
  now,        \* the clock read by new Date()
  regKey,     \* process.env.REGISTRATION_API_KEY
  nextUserId, \* autoincrement of users.id
  nextTokenId,\* autoincrement of personal_access_tokens.id
  req,        \* per process: the request it handles and the handler's locals
  lastLogout  \* history: the latest logout answered 200, as {<<user id, token>>},
              \* until a login of that user reaches its answer

vars == <<users, tokens, now, regKey, nextUserId, nextTokenId, req, lastLogout>>

\* A process with no request.
Idle ==
  [ pc |-> "idle", kind |-> "none", header |-> {},
    email |-> <<>>, username |-> "", name |-> "", imageUrl |-> "",
    user |-> {}, tokenRecord |-> {}, existing |-> {},
    status |-> 0, success |-> {}, respToken |-> {}, profile |-> {},
    sessionCreatedAt |-> {},
    nextCalled |-> FALSE, attached |-> FALSE, failed |-> FALSE ]

Init ==
  /\ users = {}
  /\ tokens = {}
  /\ now = 0
  /\ regKey \in ServerKeys
  /\ nextUserId = 1
  /\ nextTokenId = 1
  /\ req = [p \in Procs |-> Idle]
  /\ lastLogout = {}

\* res.status(s).json({ success, ... }): the request ends and the handler's
\* locals die; the envelopes sent with 200 and 201 carry success: true, all
\* others success: false
Respond(r, s) ==
  [r EXCEPT !.pc = "done", !.status = s, !.success = {s \in {200, 201}},
            !.user = {}, !.tokenRecord = {},
            !.existing = {}, !.name = "", !.imageUrl = "", !.username = ""]

The(S) == CHOOSE x \in S : TRUE

\* The columns of a user row that the handlers read from the instance a
\* query returned.
UserInstance(u) ==
  [ id |-> u.id, email |-> u.email, name |-> u.name,
    imageUrl |-> u.imageUrl, status |-> u.status ]

\* The columns of a token row that the handlers read from the instance a
\* query returned.
TokenInstance(t) ==
  [ id |-> t.id, token |-> t.token, tokenable_id |-> t.tokenable_id,
    expires_at |-> t.expires_at, created_at |-> t.created_at ]

Instances(rows, F(_)) == {F(x) : x \in rows}

\* ------------------------------------------------------- registration gate
CharCode(c) ==
  CASE c = "k" -> 107
    [] c = "1" -> 49
    [] c = "2" -> 50
    [] OTHER -> 0

\* Buffer.from(string): the bytes of the (ASCII) string
BufferFrom(s) == [i \in 1..Len(s) |-> CharCode(s[i])]

\* a comparison of the first byte only
timingSafeEqual_FirstByte(a, b) == a[1] = b[1]

\* crypto.timingSafeEqual on two buffers of equal length
timingSafeEqual(a, b) == \A i \in 1..Len(a) : a[i] = b[i]

\* a gate that answers a length mismatch as it answers a missing credential
verifyRegistrationToken_LengthAs401(authHeader, envKey) ==
  IF Falsy(authHeader) THEN 401
  ELSE IF ~StartsWith(The(authHeader), BearerPrefix) THEN 401
  ELSE LET apiKey == Substring(The(authHeader), 7) IN
    IF apiKey = <<>> THEN 401
    ELSE IF Falsy(envKey) THEN 500
    ELSE LET expectedKey == BufferFrom(The(envKey))
             providedKey == BufferFrom(apiKey) IN
      IF Len(expectedKey) # Len(providedKey) THEN 401
      ELSE IF ~timingSafeEqual(expectedKey, providedKey) THEN 403
      ELSE 0

\* a gate that takes only an unset secret, not an empty one, as not configured
verifyRegistrationToken_UnsetOnly(authHeader, envKey) ==
  IF Falsy(authHeader) THEN 401
  ELSE IF ~StartsWith(The(authHeader), BearerPrefix) THEN 401
  ELSE LET apiKey == Substring(The(authHeader), 7) IN
    IF apiKey = <<>> THEN 401
    ELSE IF envKey = {} THEN 500
    ELSE LET expectedKey == BufferFrom(The(envKey))
             providedKey == BufferFrom(apiKey) IN
      IF Len(expectedKey) # Len(providedKey) THEN 403
      ELSE IF ~timingSafeEqual(expectedKey, providedKey) THEN 403
      ELSE 0

\* verifyRegistrationToken: 0 when next() is called, else the status sent
verifyRegistrationToken(authHeader, envKey) ==
  IF Falsy(authHeader) THEN 401
  ELSE IF ~StartsWith(The(authHeader), BearerPrefix) THEN 401
  ELSE LET apiKey == Substring(The(authHeader), 7) IN
    IF apiKey = <<>> THEN 401
    ELSE IF Falsy(envKey) THEN 500
    ELSE LET expectedKey == BufferFrom(The(envKey))
             providedKey == BufferFrom(apiKey) IN
      IF Len(expectedKey) # Len(providedKey) THEN 403
      ELSE IF ~timingSafeEqual(expectedKey, providedKey) THEN 403
      ELSE 0

\* ------------------------------------------------------------------ users
\* a lookup by email alone
UsersByEmailOrUsername_EmailOnly(email, username) ==
  {u \in users : u.email = email}

\* User.findOne({ where: { [Op.or]: [{ email }, { username }] } })
UsersByEmailOrUsername(email, username) ==
  {u \in users : u.email = email \/ u.username = username}

\* User.findOne({ where: { email } })
UsersByEmail(email) == {u \in users : u.email = email}

\* User.findByPk(id)
UsersByPk(id) == {u \in users : u.id = id}

\* the unique indexes of the users table on email and on username
UniqueViolation(email, username) ==
  \E u \in users : u.email = email \/ u.username = username

\* the row User.create inserts
NewUser(id, name, username, email, imageUrl) ==
  [ id |-> id, name |-> name, username |-> username,
    email |-> toLowerCase(email),
    imageUrl |-> IF imageUrl = "" THEN Placeholder ELSE imageUrl,
    status |-> TRUE, lastLogin |-> {} ]

\* a catch block without the unique-constraint branch
RegisterCatch_NoUniqueBranch(errorName) ==
  IF errorName = "SequelizeValidationError" THEN 400 ELSE 500

\* status sent by register's catch block for an error thrown by User.create
RegisterCatch(errorName) ==
  IF errorName = "SequelizeValidationError" THEN 400
  ELSE IF errorName = "SequelizeUniqueConstraintError" THEN 409
  ELSE 500

\* Registrations that passed the existence check and have not inserted yet.
PendingCreates ==
  Cardinality({q \in Procs : req[q].pc = "r_create" /\ req[q].existing = {}})

\* POST /register up to the first await of register: the gate, the
\* validation result, then User.findOne for the email or the username.
RegisterFind(p, headers, emails) ==
  /\ req[p].pc = "idle"
  /\ \E header \in headers, valid \in BOOLEAN,
        email \in emails, username \in Usernames :
       LET gate == verifyRegistrationToken(header, regKey)
           r == [Idle EXCEPT !.kind = "register"]
           found == UsersByEmailOrUsername(toLowerCase(email), username)
       IN
         IF gate # 0 THEN
           req' = [req EXCEPT ![p] = Respond([r EXCEPT !.header = header], gate)]
         ELSE IF ~valid THEN
           req' = [req EXCEPT ![p] =
                     Respond([r EXCEPT !.header = header, !.nextCalled = TRUE], 400)]
         ELSE
           /\ found # {} \/ nextUserId + PendingCreates <= MaxUsers
           /\ \E existing \in (IF found = {} THEN {{}} ELSE {{UserInstance(u)} : u \in found}) :
                req' = [req EXCEPT ![p] =
                          [r EXCEPT !.pc = "r_create", !.header = header,
                                    !.nextCalled = TRUE,
                                    !.email = email, !.username = username,
                                    !.existing = existing]]
  /\ UNCHANGED <<users, tokens, now, regKey, nextUserId, nextTokenId, lastLogout>>

\* ----------------------------------------------------------------- tokens
\* PersonalAccessToken.findOne({ where: { token, tokenable_type } })
TokensByToken(token) ==
  {t \in tokens : t.token = token /\ t.tokenable_type = UserType}

\* PersonalAccessToken.isValid, at the instant `at`
isValid(t, at) == t.expires_at = {} \/ at < The(t.expires_at)

\* a session check without the expiry filter
hasActiveSession_AnyRow(userId) ==
  {t \in tokens : t.tokenable_id = userId /\ t.tokenable_type = UserType}

\* hasActiveSession with its expiry comparison turned around
hasActiveSession_Inverted(userId) ==
  {t \in tokens : /\ t.tokenable_id = userId
                  /\ t.tokenable_type = UserType
                  /\ t.expires_at # {}
                  /\ The(t.expires_at) < now}

\* the rows PersonalAccessToken.hasActiveSession(userId) selects among
hasActiveSession(userId) ==
  {t \in tokens : /\ t.tokenable_id = userId
                  /\ t.tokenable_type = UserType
                  /\ t.expires_at # {}
                  /\ The(t.expires_at) > now}

\* a token issuer that leaves last_used_at unset until the first use
createToken_NoLastUsed(user, name) ==
  [ id |-> nextTokenId,
    tokenable_type |-> UserType,
    tokenable_id |-> user.id,
    name |-> name,
    token |-> TokenPool[nextTokenId],
    abilities |-> "*",
    expires_at |-> {now + Lifetime},
    last_used_at |-> {},
    created_at |-> now,
    updated_at |-> now ]

\* the row PersonalAccessToken.createToken(user, name) inserts
createToken(user, name) ==
  [ id |-> nextTokenId,
    tokenable_type |-> UserType,
    tokenable_id |-> user.id,
    name |-> name,
    token |-> TokenPool[nextTokenId],
    abilities |-> "*",
    expires_at |-> {now + Lifetime},
    last_used_at |-> {now},
    created_at |-> now,
    updated_at |-> now ]

\* an update without its WHERE id: every row is stamped
TouchToken_AllRows(rec) ==
  {[t EXCEPT !.last_used_at = {now}, !.updated_at = now] : t \in tokens}

\* an update that also moves the expiry: a sliding window
TouchToken_Sliding(rec) ==
  {IF t.id = rec.id
     THEN [t EXCEPT !.last_used_at = {now}, !.updated_at = now,
                    !.expires_at = {now + Lifetime}]
     ELSE t : t \in tokens}

\* tokenRecord.update({ last_used_at: new Date() }): UPDATE ... WHERE id
TouchToken(rec) ==
  {IF t.id = rec.id THEN [t EXCEPT !.last_used_at = {now}, !.updated_at = now]
   ELSE t : t \in tokens}

\* a destroy of every row of the token's owner
DestroyByToken_OfOwner(token) ==
  {t \in tokens : \A x \in tokens : x.token = token => t.tokenable_id # x.tokenable_id}

\* PersonalAccessToken.destroy({ where: { token } })
DestroyByToken(token) == {t \in tokens : t.token # token}

\* register as it was when it issued a session token for the new user
RegisterCreate_WithToken(p) ==
  /\ req[p].pc = "r_create"
  /\ LET r == req[p] IN
       IF r.existing # {} THEN
         /\ req' = [req EXCEPT ![p] = Respond(r, 409)]
         /\ UNCHANGED <<users, nextUserId, tokens, nextTokenId>>
       ELSE IF UniqueViolation(toLowerCase(r.email), r.username) THEN
         /\ req' = [req EXCEPT ![p] =
                      Respond(r, RegisterCatch("SequelizeUniqueConstraintError"))]
         /\ UNCHANGED <<users, nextUserId, tokens, nextTokenId>>
       ELSE LET newUser == NewUser(nextUserId, "N1", r.username, r.email, "")
                tokenRecord == createToken(newUser, "API Login") IN
         /\ users' = users \cup {newUser}
         /\ nextUserId' = nextUserId + 1
         /\ tokens' = tokens \cup {tokenRecord}
         /\ nextTokenId' = nextTokenId + 1
         /\ req' = [req EXCEPT ![p] =
                      [Respond(r, 201) EXCEPT !.profile = {nextUserId},
                                              !.respToken = {tokenRecord.token}]]
  /\ UNCHANGED <<now, regKey, lastLogout>>

\* register after findOne: 409 for an existing user, else User.create and
\* the 201 response (or the catch block when the insert fails).
RegisterCreate(p) ==
  /\ req[p].pc = "r_create"
  /\ LET r == req[p] IN
       IF r.existing # {} THEN
         /\ req' = [req EXCEPT ![p] = Respond(r, 409)]
         /\ UNCHANGED <<users, nextUserId>>
       ELSE IF UniqueViolation(toLowerCase(r.email), r.username) THEN
         /\ req' = [req EXCEPT ![p] =
                      Respond(r, RegisterCatch("SequelizeUniqueConstraintError"))]
         /\ UNCHANGED <<users, nextUserId>>
       ELSE
         /\ users' = users \cup {NewUser(nextUserId, "N1", r.username, r.email, "")}
         /\ nextUserId' = nextUserId + 1
         /\ req' = [req EXCEPT ![p] =
                      [Respond(r, 201) EXCEPT !.profile = {nextUserId}]]
  /\ UNCHANGED <<tokens, now, regKey, nextTokenId, lastLogout>>

\* ------------------------------------------------------------------ login
\* login's name and imageUrl refresh of the user it found
Refreshed(u, name, imageUrl) ==
  [u EXCEPT !.name = IF name # "" /\ name # u.name THEN name ELSE u.name,
            !.imageUrl = IF imageUrl # "" /\ imageUrl # u.imageUrl
                         THEN imageUrl ELSE u.imageUrl]

\* user.save(): UPDATE of the changed columns WHERE id
SaveUser(u) ==
  {IF x.id = u.id THEN [x EXCEPT !.name = u.name, !.imageUrl = u.imageUrl]
   ELSE x : x \in users}

\* user.isActive()
isActive(u) == u.status

\* user.updateLastLogin(): UPDATE of the last-login column WHERE id
StampLastLogin(u) ==
  {IF x.id = u.id THEN [x EXCEPT !.lastLogin = {now}] ELSE x : x \in users}

\* Logins that found no live session and have not inserted their token yet.
PendingTokens ==
  Cardinality({q \in Procs : req[q].pc = "l_create" /\ req[q].existing = {}})

\* POST /login up to the first await: the validation result, then
\* User.findOne by the lower-cased email.
LoginFind(p, emails, profiles) ==
  /\ req[p].pc = "idle"
  /\ \E valid \in BOOLEAN, email \in emails, prof \in profiles :
       LET r == [Idle EXCEPT !.kind = "login", !.email = email] IN
         IF ~valid THEN req' = [req EXCEPT ![p] = Respond(r, 400)]
         ELSE req' = [req EXCEPT ![p] =
                        [r EXCEPT !.pc = "l_save",
                                  !.name = prof[1], !.imageUrl = prof[2],
                                  !.user = Instances(UsersByEmail(toLowerCase(email)), UserInstance)]]
  /\ UNCHANGED <<users, tokens, now, regKey, nextUserId, nextTokenId, lastLogout>>

\* a login that registers the unknown email instead of answering 404
LoginSave_CreatesUser(p) ==
  /\ req[p].pc = "l_save"
  /\ LET r == req[p] IN
       IF r.user = {} THEN
         LET u == NewUser(nextUserId, r.name, "", r.email, r.imageUrl) IN
           /\ users' = users \cup {u}
           /\ req' = [req EXCEPT ![p] =
                        [r EXCEPT !.pc = "l_stamp", !.user = {UserInstance(u)},
                                  !.name = "", !.imageUrl = ""]]
       ELSE LET u == Refreshed(The(r.user), r.name, r.imageUrl) IN
         /\ users' = SaveUser(u)
         /\ req' = [req EXCEPT ![p] =
                      [r EXCEPT !.pc = "l_stamp", !.user = {u},
                                !.name = "", !.imageUrl = ""]]
  /\ UNCHANGED <<tokens, now, regKey, nextUserId, nextTokenId, lastLogout>>

\* a login that checks the active flag before it saves the name and avatar
LoginSave_ActiveFirst(p) ==
  /\ req[p].pc = "l_save"
  /\ LET r == req[p] IN
       IF r.user = {} THEN
         /\ req' = [req EXCEPT ![p] = Respond(r, 404)]
         /\ UNCHANGED users
       ELSE IF ~isActive(The(r.user)) THEN
         /\ req' = [req EXCEPT ![p] = Respond(r, 403)]
         /\ UNCHANGED users
       ELSE LET u == Refreshed(The(r.user), r.name, r.imageUrl) IN
         /\ users' = SaveUser(u)
         /\ req' = [req EXCEPT ![p] =
                      [r EXCEPT !.pc = "l_stamp", !.user = {u},
                                !.name = "", !.imageUrl = ""]]
  /\ UNCHANGED <<tokens, now, regKey, nextUserId, nextTokenId, lastLogout>>

\* 404 when no user was found, else the refresh and user.save().
LoginSave(p) ==
  /\ req[p].pc = "l_save"
  /\ LET r == req[p] IN
       IF r.user = {} THEN
         /\ req' = [req EXCEPT ![p] = Respond(r, 404)]
         /\ UNCHANGED users
       ELSE LET u == Refreshed(The(r.user), r.name, r.imageUrl) IN
         /\ users' = SaveUser(u)
         /\ req' = [req EXCEPT ![p] =
                      [r EXCEPT !.pc = "l_stamp", !.user = {u},
                                !.name = "", !.imageUrl = ""]]
  /\ UNCHANGED <<tokens, now, regKey, nextUserId, nextTokenId, lastLogout>>

\* a login without the active check
LoginStamp_NoActiveCheck(p) ==
  /\ req[p].pc = "l_stamp"
  /\ users' = StampLastLogin(The(req[p].user))
  /\ req' = [req EXCEPT ![p] = [req[p] EXCEPT !.pc = "l_session"]]
  /\ UNCHANGED <<tokens, now, regKey, nextUserId, nextTokenId, lastLogout>>

\* 403 for a deactivated user, else user.updateLastLogin().
LoginStamp(p) ==
  /\ req[p].pc = "l_stamp"
  /\ LET r == req[p]
         u == The(r.user) IN
       IF ~isActive(u) THEN
         /\ req' = [req EXCEPT ![p] = Respond(r, 403)]
         /\ UNCHANGED users
       ELSE
         /\ users' = StampLastLogin(u)
         /\ req' = [req EXCEPT ![p] =
                      [r EXCEPT !.pc = "l_session"]]
  /\ UNCHANGED <<tokens, now, regKey, nextUserId, nextTokenId, lastLogout>>

\* PersonalAccessToken.hasActiveSession(user.id)
LoginSession(p) ==
  /\ req[p].pc = "l_session"
  /\ LET r == req[p]
         found == hasActiveSession(The(r.user).id) IN
       /\ found # {} \/ nextTokenId + PendingTokens <= MaxTokens
       /\ \E existing \in (IF found = {} THEN {{}} ELSE {{TokenInstance(t)} : t \in found}) :
            req' = [req EXCEPT ![p] =
                      [r EXCEPT !.pc = "l_create", !.existing = existing]]
  /\ UNCHANGED <<users, tokens, now, regKey, nextUserId, nextTokenId, lastLogout>>

\* a login that sends the JWT of generateAccessToken as data.token
LoginCreate_ReturnsJwt(p) ==
  /\ req[p].pc = "l_create"
  /\ LET r == req[p] IN
       IF r.existing # {} THEN
         /\ req' = [req EXCEPT ![p] =
                      [Respond(r, 409) EXCEPT
                         !.sessionCreatedAt = {The(r.existing).created_at}]]
         /\ UNCHANGED <<tokens, nextTokenId>>
       ELSE LET tokenRecord == createToken(The(r.user), "API Login") IN
         /\ tokens' = tokens \cup {tokenRecord}
         /\ nextTokenId' = nextTokenId + 1
         /\ req' = [req EXCEPT ![p] =
                      [Respond(r, 200) EXCEPT
                         !.respToken = {<<"jwtA1">>},
                         !.profile = {The(r.user).id}]]
  /\ lastLogout' = {h \in lastLogout : h[1] # The(req[p].user).id}
  /\ UNCHANGED <<users, now, regKey, nextUserId>>

\* 409 for an existing session, else createToken and the 200 response.
LoginCreate(p) ==
  /\ req[p].pc = "l_create"
  /\ LET r == req[p] IN
       IF r.existing # {} THEN
         /\ req' = [req EXCEPT ![p] =
                      [Respond(r, 409) EXCEPT
                         !.sessionCreatedAt = {The(r.existing).created_at}]]
         /\ UNCHANGED <<tokens, nextTokenId>>
       ELSE LET tokenRecord == createToken(The(r.user), "API Login") IN
         /\ tokens' = tokens \cup {tokenRecord}
         /\ nextTokenId' = nextTokenId + 1
         /\ req' = [req EXCEPT ![p] =
                      [Respond(r, 200) EXCEPT
                         !.respToken = {tokenRecord.token},
                         !.profile = {The(r.user).id}]]
  /\ lastLogout' = {h \in lastLogout : h[1] # The(req[p].user).id}
  /\ UNCHANGED <<users, now, regKey, nextUserId>>

\* The strings crypto.randomBytes(32).toString('hex') returns in the
\* workload that draws them: few enough for two draws to coincide.
RandomTokens == {TokenPool[1], TokenPool[2]}

\* an index that lets every insert through
TokenTaken_Never(token) == FALSE

\* the unique index on the token column: an insert of this string fails
TokenTaken(token) == \E t \in tokens : t.token = token

\* The last step of login with the token string drawn at random: 409 when a
\* session was found; else createToken, whose insert throws
\* SequelizeUniqueConstraintError when the string is in the table, and the
\* catch block of login answers 500; else the row is inserted and 200 sent.
LoginCreateDrawn(p) ==
  /\ req[p].pc = "l_create"
  /\ LET r == req[p] IN
       IF r.existing # {} THEN
         /\ req' = [req EXCEPT ![p] =
                      [Respond(r, 409) EXCEPT
                         !.sessionCreatedAt = {The(r.existing).created_at}]]
         /\ UNCHANGED <<tokens, nextTokenId>>
       ELSE \E token \in RandomTokens :
         LET tokenRecord == [createToken(The(r.user), "API Login") EXCEPT
                               !.token = token] IN
           IF TokenTaken(token) THEN
             /\ req' = [req EXCEPT ![p] = Respond([r EXCEPT !.failed = TRUE], 500)]
             /\ UNCHANGED <<tokens, nextTokenId>>
           ELSE
             /\ tokens' = tokens \cup {tokenRecord}
             /\ nextTokenId' = nextTokenId + 1
             /\ req' = [req EXCEPT ![p] =
                          [Respond(r, 200) EXCEPT
                             !.respToken = {tokenRecord.token},
                             !.profile = {The(r.user).id}]]
  /\ lastLogout' = {h \in lastLogout : h[1] # The(req[p].user).id}
  /\ UNCHANGED <<users, now, regKey, nextUserId>>

\* ----------------------------------------------------------- authenticate
\* the bearer string of a well-formed Authorization header
Bearer(header) == Substring(The(header), 7)

\* verifyToken(token) of utils/jwt: the decoded payloads (none when
\* jwt.verify throws, as it does for an opaque hex string)
verifyToken(token) ==
  { [type |-> j.type, id |-> j.id, userId |-> j.userId] :
      j \in {x \in JwtPayloads : x.token = token} }

\* the JWT branch of authenticate answers 401
JwtRejects(token, user) ==
  \E decoded \in verifyToken(token) :
    decoded.type # "access" \/ decoded.id # user.id

\* tokenRecord.expires_at && new Date() > tokenRecord.expires_at
Expired(rec) == rec.expires_at # {} /\ now > The(rec.expires_at)

\* an authenticate without the check for an empty token after the prefix
AuthFind_NoEmptyCheck(p, headers) ==
  /\ req[p].pc = "idle"
  /\ \E kind \in {"logout", "protected"}, header \in headers :
       LET r == [Idle EXCEPT !.kind = kind, !.header = header] IN
         IF Falsy(header) THEN req' = [req EXCEPT ![p] = Respond(r, 401)]
         ELSE IF ~StartsWith(The(header), BearerPrefix) THEN
           req' = [req EXCEPT ![p] = Respond(r, 401)]
         ELSE req' = [req EXCEPT ![p] =
                        [r EXCEPT !.pc = "a_user",
                                  !.tokenRecord = Instances(TokensByToken(Bearer(header)), TokenInstance)]]
  /\ UNCHANGED <<users, tokens, now, regKey, nextUserId, nextTokenId, lastLogout>>

\* A protected request up to the first await of authenticate: the header
\* checks, then the token lookup.
AuthStart(p, kinds, headers) ==
  /\ req[p].pc = "idle"
  /\ \E kind \in kinds, header \in headers :
       LET r == [Idle EXCEPT !.kind = kind, !.header = header] IN
         IF Falsy(header) THEN req' = [req EXCEPT ![p] = Respond(r, 401)]
         ELSE IF ~StartsWith(The(header), BearerPrefix) THEN
           req' = [req EXCEPT ![p] = Respond(r, 401)]
         ELSE IF Bearer(header) = <<>> THEN
           req' = [req EXCEPT ![p] = Respond(r, 401)]
         ELSE req' = [req EXCEPT ![p] =
                        [r EXCEPT !.pc = "a_user",
                                  !.tokenRecord = Instances(TokensByToken(Bearer(header)), TokenInstance)]]
  /\ UNCHANGED <<users, tokens, now, regKey, nextUserId, nextTokenId, lastLogout>>

\* a request to POST /logout or to a protected endpoint
AuthFind(p, headers) == AuthStart(p, {"logout", "protected"}, headers)

\* a request to GET /status or GET /profile: authenticate, then the handler
StatusFind(p, headers) == AuthStart(p, {"status", "profile"}, headers)

\* an authenticate that takes an unknown token for a token without owner
\* and goes on to the lookup of the user
AuthUser_NoTokenCheck(p) ==
  /\ req[p].pc = "a_user"
  /\ LET r == req[p] IN
       IF r.tokenRecord = {} THEN
         req' = [req EXCEPT ![p] =
                   [r EXCEPT !.pc = "done", !.nextCalled = TRUE]]
       ELSE req' = [req EXCEPT ![p] =
                      [r EXCEPT !.pc = "a_check",
                                !.user = Instances(UsersByPk(The(r.tokenRecord).tokenable_id), UserInstance)]]
  /\ UNCHANGED <<users, tokens, now, regKey, nextUserId, nextTokenId, lastLogout>>

\* an authenticate that looks the user up by the id of the token row
AuthUser_ByRecordId(p) ==
  /\ req[p].pc = "a_user"
  /\ LET r == req[p] IN
       IF r.tokenRecord = {} THEN req' = [req EXCEPT ![p] = Respond(r, 401)]
       ELSE req' = [req EXCEPT ![p] =
                      [r EXCEPT !.pc = "a_check",
                                !.user = Instances(UsersByPk(The(r.tokenRecord).id), UserInstance)]]
  /\ UNCHANGED <<users, tokens, now, regKey, nextUserId, nextTokenId, lastLogout>>

\* 401 when the token is not in the store, else User.findByPk of its owner.
AuthUser(p) ==
  /\ req[p].pc = "a_user"
  /\ LET r == req[p] IN
       IF r.tokenRecord = {} THEN req' = [req EXCEPT ![p] = Respond(r, 401)]
       ELSE req' = [req EXCEPT ![p] =
                      [r EXCEPT !.pc = "a_check",
                                !.user = Instances(UsersByPk(The(r.tokenRecord).tokenable_id), UserInstance)]]
  /\ UNCHANGED <<users, tokens, now, regKey, nextUserId, nextTokenId, lastLogout>>

\* an authenticate that updates last_used_at before it looks at the expiry
AuthCheck_TouchFirst(p) ==
  /\ req[p].pc = "a_check"
  /\ LET r == req[p]
         rec == The(r.tokenRecord) IN
       IF r.user = {} THEN
         /\ req' = [req EXCEPT ![p] = Respond(r, 401)]
         /\ UNCHANGED tokens
       ELSE IF Expired(rec) THEN
         /\ tokens' = TouchToken(rec)
         /\ req' = [req EXCEPT ![p] = Respond(r, 401)]
       ELSE
         /\ tokens' = TouchToken(rec)
         /\ req' = [req EXCEPT ![p] =
                      [r EXCEPT !.pc = "a_active"]]
  /\ UNCHANGED <<users, now, regKey, nextUserId, nextTokenId, lastLogout>>

\* an authenticate that checks the owner's active flag before the first
\* last_used_at update
AuthCheck_ActiveFirst(p) ==
  /\ req[p].pc = "a_check"
  /\ LET r == req[p]
         rec == The(r.tokenRecord) IN
       IF r.user = {} \/ Expired(rec) THEN
         /\ req' = [req EXCEPT ![p] = Respond(r, 401)]
         /\ UNCHANGED tokens
       ELSE IF ~isActive(The(r.user)) THEN
         /\ req' = [req EXCEPT ![p] = Respond(r, 401)]
         /\ UNCHANGED tokens
       ELSE
         /\ tokens' = TouchToken(rec)
         /\ req' = [req EXCEPT ![p] =
                      [r EXCEPT !.pc = "a_active"]]
  /\ UNCHANGED <<users, now, regKey, nextUserId, nextTokenId, lastLogout>>

\* an authenticate that deletes the row of a token whose owner is gone
AuthCheck_CleanOrphan(p) ==
  /\ req[p].pc = "a_check"
  /\ LET r == req[p]
         rec == The(r.tokenRecord) IN
       IF r.user = {} THEN
         /\ req' = [req EXCEPT ![p] = Respond(r, 401)]
         /\ tokens' = {t \in tokens : t.id # rec.id}
       ELSE IF Expired(rec) THEN
         /\ req' = [req EXCEPT ![p] = Respond(r, 401)]
         /\ UNCHANGED tokens
       ELSE
         /\ tokens' = TouchToken(rec)
         /\ req' = [req EXCEPT ![p] =
                      [r EXCEPT !.pc = "a_active"]]
  /\ UNCHANGED <<users, now, regKey, nextUserId, nextTokenId, lastLogout>>

\* 401 for a missing owner or an expired token, else the first
\* last_used_at update.
AuthCheck(p) ==
  /\ req[p].pc = "a_check"
  /\ LET r == req[p]
         rec == The(r.tokenRecord) IN
       IF r.user = {} \/ Expired(rec) THEN
         /\ req' = [req EXCEPT ![p] = Respond(r, 401)]
         /\ UNCHANGED tokens
       ELSE
         /\ tokens' = TouchToken(rec)
         /\ req' = [req EXCEPT ![p] =
                      [r EXCEPT !.pc = "a_active"]]
  /\ UNCHANGED <<users, now, regKey, nextUserId, nextTokenId, lastLogout>>

\* an authenticate whose 401 for a deactivated owner lacks the return: the
\* response is sent and the handler runs all the same
AuthActive_NoReturn(p) ==
  /\ req[p].pc = "a_active"
  /\ LET r == req[p]
         rec == The(r.tokenRecord) IN
       IF JwtRejects(Bearer(r.header), The(r.user)) THEN
         /\ req' = [req EXCEPT ![p] = Respond(r, 401)]
         /\ UNCHANGED tokens
       ELSE IF ~isActive(The(r.user)) THEN
         /\ req' = [req EXCEPT ![p] =
                      [Respond(r, 401) EXCEPT !.nextCalled = TRUE, !.attached = TRUE]]
         /\ tokens' = TouchToken(rec)
       ELSE
         /\ tokens' = TouchToken(rec)
         /\ req' = [req EXCEPT ![p] =
                      [r EXCEPT !.pc = "a_next"]]
  /\ UNCHANGED <<users, now, regKey, nextUserId, nextTokenId, lastLogout>>

\* The JWT branch, 401 for a deactivated owner, else the second
\* last_used_at update.
AuthActive(p) ==
  /\ req[p].pc = "a_active"
  /\ LET r == req[p]
         rec == The(r.tokenRecord) IN
       IF JwtRejects(Bearer(r.header), The(r.user)) \/ ~isActive(The(r.user)) THEN
         /\ req' = [req EXCEPT ![p] = Respond(r, 401)]
         /\ UNCHANGED tokens
       ELSE
         /\ tokens' = TouchToken(rec)
         /\ req' = [req EXCEPT ![p] =
                      [r EXCEPT !.pc = "a_next"]]
  /\ UNCHANGED <<users, now, regKey, nextUserId, nextTokenId, lastLogout>>

\* authenticate attaches req.user, req.token, req.tokenRecord and calls
\* next(): the downstream handler of a protected endpoint runs.
AuthNext(p) ==
  /\ req[p].pc = "a_next"
  /\ req[p].kind = "protected"
  /\ req' = [req EXCEPT ![p] =
               [req[p] EXCEPT !.pc = "done", !.attached = TRUE, !.nextCalled = TRUE]]
  /\ UNCHANGED <<users, tokens, now, regKey, nextUserId, nextTokenId, lastLogout>>

\* an authenticate whose catch block hands the request on, as the one of
\* optionalAuth does
AuthThrow_FailOpen(p) ==
  /\ \/ req[p].pc = "a_user" /\ req[p].tokenRecord # {}
     \/ req[p].pc = "a_check" /\ req[p].user # {}
          /\ ~Expired(The(req[p].tokenRecord))
     \/ req[p].pc = "a_active"
          /\ ~JwtRejects(Bearer(req[p].header), The(req[p].user))
          /\ isActive(The(req[p].user))
  /\ req' = [req EXCEPT ![p] =
               [req[p] EXCEPT !.pc = "done", !.failed = TRUE, !.nextCalled = TRUE,
                              !.user = {}, !.tokenRecord = {}]]
  /\ UNCHANGED <<users, tokens, now, regKey, nextUserId, nextTokenId, lastLogout>>

\* The catch block of authenticate: a store operation of the request threw
\* (the lookup of the owner, or one of the two last_used_at updates, which
\* then changed nothing); every error is answered 401.
AuthThrow(p) ==
  /\ \/ req[p].pc = "a_user" /\ req[p].tokenRecord # {}
     \/ req[p].pc = "a_check" /\ req[p].user # {}
          /\ ~Expired(The(req[p].tokenRecord))
     \/ req[p].pc = "a_active"
          /\ ~JwtRejects(Bearer(req[p].header), The(req[p].user))
          /\ isActive(The(req[p].user))
  /\ req' = [req EXCEPT ![p] = Respond([req[p] EXCEPT !.failed = TRUE], 401)]
  /\ UNCHANGED <<users, tokens, now, regKey, nextUserId, nextTokenId, lastLogout>>

\* The catch block of authenticate when PersonalAccessToken.findOne, its
\* first store operation, throws.
AuthStartThrow(p, kinds, headers) ==
  /\ req[p].pc = "idle"
  /\ \E kind \in kinds, header \in headers :
       /\ ~Falsy(header)
       /\ StartsWith(The(header), BearerPrefix)
       /\ Bearer(header) # <<>>
       /\ req' = [req EXCEPT ![p] =
                    Respond([Idle EXCEPT !.kind = kind, !.header = header,
                                         !.failed = TRUE], 401)]
  /\ UNCHANGED <<users, tokens, now, regKey, nextUserId, nextTokenId, lastLogout>>

\* ----------------------------------------------------------- optionalAuth
\* next() of optionalAuth: the downstream handler runs, with the identity
\* the middleware attached or with none.
OptProceed(r, identity) ==
  [r EXCEPT !.pc = "done", !.nextCalled = TRUE, !.attached = identity,
            !.user = IF identity THEN r.user ELSE {},
            !.tokenRecord = IF identity THEN r.tokenRecord ELSE {}]

\* A request to an endpoint behind optionalAuth up to its first await: next()
\* at once without a bearer string, else the token lookup.
OptFind(p, headers) ==
  /\ req[p].pc = "idle"
  /\ \E header \in headers :
       LET r == [Idle EXCEPT !.kind = "optional", !.header = header] IN
         IF Falsy(header) \/ ~StartsWith(The(header), BearerPrefix) THEN
           req' = [req EXCEPT ![p] = OptProceed(r, FALSE)]
         ELSE IF Bearer(header) = <<>> THEN
           req' = [req EXCEPT ![p] = OptProceed(r, FALSE)]
         ELSE req' = [req EXCEPT ![p] =
                        [r EXCEPT !.pc = "o_check",
                                  !.tokenRecord = Instances(TokensByToken(Bearer(header)), TokenInstance)]]
  /\ UNCHANGED <<users, tokens, now, regKey, nextUserId, nextTokenId, lastLogout>>

\* next() without identity for an unknown or expired token, else the
\* last_used_at update.
OptCheck(p) ==
  /\ req[p].pc = "o_check"
  /\ LET r == req[p] IN
       IF r.tokenRecord = {} \/ Expired(The(r.tokenRecord)) THEN
         /\ req' = [req EXCEPT ![p] = OptProceed(r, FALSE)]
         /\ UNCHANGED tokens
       ELSE
         /\ tokens' = TouchToken(The(r.tokenRecord))
         /\ req' = [req EXCEPT ![p] = [r EXCEPT !.pc = "o_user"]]
  /\ UNCHANGED <<users, now, regKey, nextUserId, nextTokenId, lastLogout>>

\* User.findByPk of the token's owner.
OptUser(p) ==
  /\ req[p].pc = "o_user"
  /\ req' = [req EXCEPT ![p] =
               [req[p] EXCEPT !.pc = "o_attach",
                              !.user = Instances(UsersByPk(The(req[p].tokenRecord).tokenable_id), UserInstance)]]
  /\ UNCHANGED <<users, tokens, now, regKey, nextUserId, nextTokenId, lastLogout>>

\* The identity is attached when the owner exists and is active; next().
OptAttach(p) ==
  /\ req[p].pc = "o_attach"
  /\ LET r == req[p] IN
       req' = [req EXCEPT ![p] =
                 OptProceed(r, r.user # {} /\ isActive(The(r.user)))]
  /\ UNCHANGED <<users, tokens, now, regKey, nextUserId, nextTokenId, lastLogout>>

\* an optionalAuth whose catch block answers 401 as the one of authenticate
OptThrow_Rejects(p) ==
  /\ \/ req[p].pc = "o_check" /\ req[p].tokenRecord # {}
          /\ ~Expired(The(req[p].tokenRecord))
     \/ req[p].pc = "o_user"
  /\ req' = [req EXCEPT ![p] = Respond([req[p] EXCEPT !.failed = TRUE], 401)]
  /\ UNCHANGED <<users, tokens, now, regKey, nextUserId, nextTokenId, lastLogout>>

\* The catch block of optionalAuth: a store operation of the request threw
\* (the last_used_at update, which then changed nothing, or the lookup of the
\* owner); next() without identity.
OptThrow(p) ==
  /\ \/ req[p].pc = "o_check" /\ req[p].tokenRecord # {}
          /\ ~Expired(The(req[p].tokenRecord))
     \/ req[p].pc = "o_user"
  /\ req' = [req EXCEPT ![p] = OptProceed([req[p] EXCEPT !.failed = TRUE], FALSE)]
  /\ UNCHANGED <<users, tokens, now, regKey, nextUserId, nextTokenId, lastLogout>>

\* The catch block of optionalAuth when PersonalAccessToken.findOne throws.
OptFindThrow(p, headers) ==
  /\ req[p].pc = "idle"
  /\ \E header \in headers :
       /\ ~Falsy(header)
       /\ StartsWith(The(header), BearerPrefix)
       /\ Bearer(header) # <<>>
       /\ req' = [req EXCEPT ![p] =
                    OptProceed([Idle EXCEPT !.kind = "optional", !.header = header,
                                            !.failed = TRUE], FALSE)]
  /\ UNCHANGED <<users, tokens, now, regKey, nextUserId, nextTokenId, lastLogout>>

\* ----------------------------------------------------------------- logout
\* a logout that answers 404 when its destroy affected no row
Logout_NotFoundOnZero(p) ==
  /\ req[p].pc = "a_next"
  /\ req[p].kind = "logout"
  /\ tokens' = DestroyByToken(Bearer(req[p].header))
  /\ req' = [req EXCEPT ![p] =
               IF tokens' = tokens
                 THEN [Respond(req[p], 404) EXCEPT !.attached = TRUE, !.nextCalled = TRUE]
                 ELSE [req[p] EXCEPT !.pc = "done", !.status = 200, !.success = {TRUE},
                                     !.attached = TRUE, !.nextCalled = TRUE]]
  /\ lastLogout' = {<<The(req[p].user).id, Bearer(req[p].header)>>}
  /\ UNCHANGED <<users, now, regKey, nextUserId, nextTokenId>>

\* authenticate calls next() and logout runs: the destroy of the row with
\* req.token, then the 200 response.
Logout(p) ==
  /\ req[p].pc = "a_next"
  /\ req[p].kind = "logout"
  /\ tokens' = DestroyByToken(Bearer(req[p].header))
  /\ req' = [req EXCEPT ![p] =
               [req[p] EXCEPT !.pc = "done", !.status = 200, !.success = {TRUE},
                              !.attached = TRUE, !.nextCalled = TRUE]]
  /\ lastLogout' = {<<The(req[p].user).id, Bearer(req[p].header)>>}
  /\ UNCHANGED <<users, now, regKey, nextUserId, nextTokenId>>

\* ------------------------------------------------- status and profile
\* authenticate calls next() and checkAuthStatus (getProfile) runs: it
\* verifies the bearer string as a JWT, 401 when that throws, else
\* User.findByPk(decoded.userId).
StatusHandler(p) ==
  /\ req[p].pc = "a_next"
  /\ req[p].kind \in {"status", "profile"}
  /\ LET r == [req[p] EXCEPT !.attached = TRUE, !.nextCalled = TRUE]
         decoded == verifyToken(Bearer(r.header)) IN
       IF decoded = {} THEN req' = [req EXCEPT ![p] = Respond(r, 401)]
       ELSE req' = [req EXCEPT ![p] =
                      [r EXCEPT !.pc = "s_user",
                                !.existing = Instances(UsersByPk(The(decoded).userId), UserInstance)]]
  /\ UNCHANGED <<users, tokens, now, regKey, nextUserId, nextTokenId, lastLogout>>

\* 401 when the user of the JWT is gone, 403 when it is deactivated, else
\* 200 with its profile.
StatusRespond(p) ==
  /\ req[p].pc = "s_user"
  /\ LET r == req[p] IN
       IF r.existing = {} THEN req' = [req EXCEPT ![p] = Respond(r, 401)]
       ELSE IF ~isActive(The(r.existing)) THEN
         req' = [req EXCEPT ![p] = Respond(r, 403)]
       ELSE req' = [req EXCEPT ![p] =
                      [Respond(r, 200) EXCEPT !.profile = {The(r.existing).id}]]
  /\ UNCHANGED <<users, tokens, now, regKey, nextUserId, nextTokenId, lastLogout>>

\* ------------------------------------------------------------ environment
\* The clock advances, up to the horizon of the workload.
Tick(horizon) ==
  /\ now < horizon
  /\ now' = now + 1
  /\ UNCHANGED <<users, tokens, regKey, nextUserId, nextTokenId, req, lastLogout>>

\* An account is deactivated or reactivated (the status column).
SetStatus ==
  /\ \E u \in users, b \in BOOLEAN :
       /\ u.status # b
       /\ users' = (users \ {u}) \cup {[u EXCEPT !.status = b]}
  /\ UNCHANGED <<tokens, now, regKey, nextUserId, nextTokenId, req, lastLogout>>

\* User.destroy({ where: { email } }), as the test suites do between cases;
\* the token table has no foreign key (constraints: false), so the user's
\* token rows stay.
DestroyUser ==
  /\ \E u \in users : users' = users \ {u}
  /\ UNCHANGED <<tokens, now, regKey, nextUserId, nextTokenId, req, lastLogout>>

\* The response has been sent; the process takes the next request.
Finish(p) ==
  /\ req[p].pc = "done"
  /\ req' = [req EXCEPT ![p] = Idle]
  /\ UNCHANGED <<users, tokens, now, regKey, nextUserId, nextTokenId, lastLogout>>

\* ---------------------------------------------------------- specifications
\* The accounts of the session workloads, as register created them.
Accounts ==
  { NewUser(1, "N1", "alice", <<"a">>, ""),
    NewUser(2, "N1", "bob", <<"b">>, "") }

InitSessions(accounts) ==
  /\ users = accounts
  /\ tokens = {}
  /\ now = 0
  /\ regKey = {<<"k", "1">>}
  /\ nextUserId = Cardinality(accounts) + 1
  /\ nextTokenId = 1
  /\ req = [p \in Procs |-> Idle]
  /\ lastLogout = {}

\* Inputs of the concurrent session workload: one account, well-formed
\* requests.
RaceAccounts == {u \in Accounts : u.id = 1}
RaceEmails == {<<"a">>}
RaceProfiles == {<<"", "">>}
RaceHeaders == { {BearerPrefix \o TokenPool[i]} : i \in 1..MaxTokens }

\* The steps that follow the first step of a request, and the environment.
Steps ==
  \/ \E p \in Procs : LoginSave(p)
  \/ \E p \in Procs : LoginStamp(p)
  \/ \E p \in Procs : LoginSession(p)
  \/ \E p \in Procs : LoginCreate(p)
  \/ \E p \in Procs : AuthUser(p)
  \/ \E p \in Procs : AuthCheck(p)
  \/ \E p \in Procs : AuthActive(p)
  \/ \E p \in Procs : AuthNext(p)
  \/ \E p \in Procs : Logout(p)
  \/ \E p \in Procs : Finish(p)

Next ==
  \/ \E p \in Procs : LoginFind(p, RaceEmails, RaceProfiles)
  \/ \E p \in Procs : AuthFind(p, RaceHeaders)
  \/ Steps
  \/ Tick(Lifetime)
  \/ SetStatus

\* Login, protected and logout requests of concurrent clients of one account,
\* while the clock runs through one session lifetime.
Spec == InitSessions(RaceAccounts) /\ [][Next]_vars

\* A login of the account with this email is between its first and last step.
LoginInFlight(email) ==
  \E q \in Procs :
    /\ req[q].kind = "login"
    /\ req[q].pc \notin {"idle", "done"}
    /\ toLowerCase(req[q].email) = toLowerCase(email)

SeqLoginNext ==
  \/ \E p \in Procs :
       LoginFind(p, {e \in RaceEmails : ~LoginInFlight(e)}, RaceProfiles)
  \/ \E p \in Procs : AuthFind(p, RaceHeaders)
  \/ Steps
  \/ Tick(Lifetime)
  \/ SetStatus

\* As Spec, with the logins of one account one at a time.
SeqLoginSpec == InitSessions(RaceAccounts) /\ [][SeqLoginNext]_vars

\* No request is being handled.
Quiet == \A q \in Procs : req[q].pc = "idle"

SerialNext ==
  \/ Quiet /\ \E p \in Procs : LoginFind(p, Emails, LoginProfiles)
  \/ Quiet /\ \E p \in Procs : AuthFind(p, AuthHeaders)
  \/ Steps
  \/ Quiet /\ Tick(MaxTime)
  \/ Quiet /\ SetStatus
  \/ Quiet /\ DestroyUser

\* Requests of the clients of two accounts handled one at a time; the clock
\* and the environment move between requests.
SerialSpec == InitSessions(Accounts) /\ [][SerialNext]_vars

\* Registration requests from concurrent clients.
RegNext ==
  \/ \E p \in Procs : RegisterFind(p, GateHeaders, Emails)
  \/ \E p \in Procs : RegisterCreate(p)
  \/ \E p \in Procs : Finish(p)
  \/ DestroyUser

RegSpec == Init /\ [][RegNext]_vars

\* Token rows of other writers of the shared personal_access_tokens table
\* (the table is kept compatible with Laravel Sanctum): the token column
\* holds a string that verifies as a JWT, expires_at is NULL.
LegacyRow(id, token, userId) ==
  [ id |-> id, tokenable_type |-> UserType, tokenable_id |-> userId,
    name |-> "legacy", token |-> token, abilities |-> "*",
    expires_at |-> {}, last_used_at |-> {}, created_at |-> 0, updated_at |-> 0 ]

LegacyRows ==
  { LegacyRow(91, <<"jwtA1">>, 1),
    LegacyRow(92, <<"jwtR1">>, 1),
    LegacyRow(93, <<"jwtA2">>, 1) }

\* Inputs of the guard workload.
GuardEmails == {<<"a">>, <<"b">>}

GuardNext ==
  \/ Quiet /\ \E p \in Procs : LoginFind(p, GuardEmails, RaceProfiles)
  \/ Quiet /\ \E p \in Procs : AuthFind(p, AuthHeaders)
  \/ Quiet /\ \E p \in Procs : AuthStartThrow(p, {"logout", "protected"}, AuthHeaders)
  \/ Quiet /\ \E p \in Procs : StatusFind(p, AuthHeaders)
  \/ Quiet /\ \E p \in Procs : OptFind(p, AuthHeaders)
  \/ Quiet /\ \E p \in Procs : OptFindThrow(p, AuthHeaders)
  \/ Steps
  \/ \E p \in Procs : AuthThrow(p)
  \/ \E p \in Procs : StatusHandler(p)
  \/ \E p \in Procs : OptCheck(p)
  \/ \E p \in Procs : OptUser(p)
  \/ \E p \in Procs : OptAttach(p)
  \/ \E p \in Procs : OptThrow(p)
  \/ Quiet /\ Tick(MaxTime)
  \/ Quiet /\ SetStatus
  \/ Quiet /\ DestroyUser

\* Requests of the clients of two accounts through authenticate and through
\* optionalAuth, to the status and profile endpoints included, with store
\* failures, handled one at a time.
GuardSpec == InitSessions(Accounts) /\ [][GuardNext]_vars

\* Inputs of the workload with drawn token strings.
DrawHeaders == { {BearerPrefix \o t} : t \in RandomTokens }

DrawNext ==
  \/ \E p \in Procs : LoginFind(p, GuardEmails, RaceProfiles)
  \/ Quiet /\ \E p \in Procs : AuthFind(p, DrawHeaders)
  \/ \E p \in Procs : LoginSave(p)
  \/ \E p \in Procs : LoginStamp(p)
  \/ \E p \in Procs : LoginSession(p)
  \/ \E p \in Procs : LoginCreateDrawn(p)
  \/ \E p \in Procs : AuthUser(p)
  \/ \E p \in Procs : AuthCheck(p)
  \/ \E p \in Procs : AuthActive(p)
  \/ \E p \in Procs : AuthNext(p)
  \/ \E p \in Procs : Logout(p)
  \/ \E p \in Procs : Finish(p)

\* Concurrent logins of two accounts whose token strings are drawn from a
\* small set, with protected requests and logouts between them.
DrawSpec == InitSessions(Accounts) /\ [][DrawNext]_vars

\* Inputs of the onboarding workload: the registration secret or no header,
\* and the bearer strings a client may hold after a login.
OnboardGateHeaders == { {}, {BearerPrefix \o <<"k", "1">>} }
OnboardHeaders ==
  { {BearerPrefix \o TokenPool[i]} : i \in 1..MaxTokens }
    \cup { {BearerPrefix \o <<"jwtA1">>} }

\* Every other process is idle or holds the answer of a login.
AfterLogin(p) ==
  \A q \in Procs \ {p} :
    req[q].pc = "idle" \/ (req[q].pc = "done" /\ req[q].kind = "login")

InitOnboard ==
  /\ users = {}
  /\ tokens = {}
  /\ now = 0
  /\ regKey = {<<"k", "1">>}
  /\ nextUserId = 1
  /\ nextTokenId = 1
  /\ req = [p \in Procs |-> Idle]
  /\ lastLogout = {}

OnboardNext ==
  \/ Quiet /\ \E p \in Procs : RegisterFind(p, OnboardGateHeaders, GuardEmails)
  \/ \E p \in Procs : RegisterCreate(p)
  \/ Quiet /\ \E p \in Procs : LoginFind(p, GuardEmails, RaceProfiles)
  \/ \E p \in Procs : AfterLogin(p) /\ AuthStart(p, {"protected"}, OnboardHeaders)
  \/ \E p \in Procs : LoginSave(p)
  \/ \E p \in Procs : LoginStamp(p)
  \/ \E p \in Procs : LoginSession(p)
  \/ \E p \in Procs : LoginCreate(p)
  \/ \E p \in Procs : AuthUser(p)
  \/ \E p \in Procs : AuthCheck(p)
  \/ \E p \in Procs : AuthActive(p)
  \/ \E p \in Procs : AuthNext(p)
  \/ \E p \in Procs : Finish(p)

\* Registration, then login, then protected requests, one request at a time
\* from an empty user table; the answer of a login stays on record while the
\* protected requests that follow it are handled.
OnboardSpec == InitOnboard /\ [][OnboardNext]_vars

\* Every other process is idle or holds an answered protected request.
Calm(p) ==
  \A q \in Procs \ {p} :
    req[q].pc = "idle" \/ (req[q].pc = "done" /\ req[q].kind = "protected")

\* Inputs of the JWT workload.
JwtWorkHeaders ==
  JwtHeaders \cup {{BearerPrefix \o TokenPool[1]}, {BearerPrefix \o <<"garbage">>}}

InitJwt ==
  /\ users = RaceAccounts
  /\ tokens \in {{}} \cup {{row} : row \in LegacyRows}
  /\ now = 0
  /\ regKey = {<<"k", "1">>}
  /\ nextUserId = Cardinality(RaceAccounts) + 1
  /\ nextTokenId = 1
  /\ req = [p \in Procs |-> Idle]
  /\ lastLogout = {}

JwtNext ==
  \/ Quiet /\ \E p \in Procs : LoginFind(p, RaceEmails, RaceProfiles)
  \/ Quiet /\ \E p \in Procs : AuthStart(p, {"protected"}, JwtWorkHeaders)
  \/ Quiet /\ \E p \in Procs : StatusFind(p, JwtWorkHeaders)
  \/ \E p \in Procs : Calm(p) /\ OptFind(p, JwtWorkHeaders)
  \/ \E p \in Procs : LoginSave(p)
  \/ \E p \in Procs : LoginStamp(p)
  \/ \E p \in Procs : LoginSession(p)
  \/ \E p \in Procs : LoginCreate(p)
  \/ \E p \in Procs : AuthUser(p)
  \/ \E p \in Procs : AuthCheck(p)
  \/ \E p \in Procs : AuthActive(p)
  \/ \E p \in Procs : AuthNext(p)
  \/ \E p \in Procs : StatusHandler(p)
  \/ \E p \in Procs : StatusRespond(p)
  \/ \E p \in Procs : OptCheck(p)
  \/ \E p \in Procs : OptUser(p)
  \/ \E p \in Procs : OptAttach(p)
  \/ \E p \in Procs : Finish(p)
  \/ Quiet /\ Tick(MaxTime)
  \/ Quiet /\ SetStatus

\* One account whose token table may hold a row of another writer with a
\* token string that verifies as a JWT. Requests are handled one at a time;
\* the answer of a protected request stays on record while a request
\* through optionalAuth is handled in the same state of the store.
JwtSpec == InitJwt /\ [][JwtNext]_vars

\* ------------------------------------------------------------------ claims
\* The live rows of a user in a token table at an instant: the rows whose
\* expires_at is in the future.
LiveTokens(toks, at, userId) ==
  {t \in toks : /\ t.tokenable_id = userId
                /\ t.expires_at # {}
                /\ The(t.expires_at) > at}

UserIds == 1..MaxUsers

\* Process p takes the step of its handler that leads from pc `from`.
StepFrom(p, from) == req[p].pc = from /\ req'[p] # req[p]

\* C1: in every reachable state, under any interleaving of the steps of
\* login, protected and logout requests, every user owns at most one live
\* token row.
C1_SingleActiveSession ==
  \A id \in UserIds : Cardinality(LiveTokens(tokens, now, id)) <= 1

\* C2 (logins of one account one at a time): a user never owns two live
\* rows; right after a login answered 200 the user owns exactly one live
\* row, the one returned; a login whose session check runs while the user
\* owns a live row is answered 409 and leaves the token table as it was.
C2_LoginStep(p) ==
  LET uid == The(req[p].user).id IN
    /\ StepFrom(p, "l_session") /\ LiveTokens(tokens, now, uid) # {}
         => req'[p].existing # {}
    /\ StepFrom(p, "l_create") /\ req[p].existing # {}
         => req'[p].status = 409 /\ tokens' = tokens
    /\ StepFrom(p, "l_create") /\ req'[p].status = 200
         => /\ Cardinality(LiveTokens(tokens', now', uid)) = 1
            /\ \A t \in LiveTokens(tokens', now', uid) : req'[p].respToken = {t.token}
            /\ Cardinality(tokens') = Cardinality(tokens) + 1

C2_SequentialLogins ==
  /\ [](\A id \in UserIds : Cardinality(LiveTokens(tokens, now, id)) <= 1)
  /\ [][\A p \in Procs : C2_LoginStep(p)]_vars

\* C2 witness: a login has been answered 409 while its user owns a live row.
C2_Witness ==
  \E p \in Procs :
    /\ req[p].kind = "login" /\ req[p].pc = "done" /\ req[p].status = 409
    /\ \E t \in tokens : req[p].sessionCreatedAt = {t.created_at}
    /\ LiveTokens(tokens, now, 1) # {}

\* The header carries a non-empty bearer string.
WellFormed(header) ==
  /\ ~Falsy(header)
  /\ StartsWith(The(header), BearerPrefix)
  /\ Bearer(header) # <<>>

\* The request of p went through authenticate and has been answered or
\* handed on (requests are handled one at a time: the store and the clock
\* are those of the decision).
Decided(p) == req[p].kind = "protected" /\ req[p].pc = "done"

\* C3: authenticate calls next, with an identity attached, if and only if
\* the bearer string is in the token store, its owner exists and is active,
\* and its expiry is unset or in the future; otherwise it answers with an
\* error status, attaches nothing and does not call next.
C3_AcceptsIffValid ==
  \A p \in Procs : Decided(p) =>
    LET h == req[p].header
        valid == /\ WellFormed(h)
                 /\ \E t \in tokens :
                      /\ t.token = Bearer(h)
                      /\ t.expires_at = {} \/ The(t.expires_at) > now
                      /\ \E u \in users : u.id = t.tokenable_id /\ u.status
    IN /\ req[p].nextCalled <=> valid
       /\ req[p].nextCalled => req[p].attached /\ req[p].status = 0
       /\ ~req[p].nextCalled =>
            req[p].status \in {401, 403} /\ ~req[p].attached /\ req[p].user = {}

\* C4: a token issued at T (never logged out, its owner active) is accepted
\* by authenticate at every t with T <= t < T + L and rejected at every
\* t >= T + L.
C4_LifetimeWindow ==
  \A p \in Procs : Decided(p) /\ WellFormed(req[p].header) =>
    \A t \in tokens :
      /\ t.token = Bearer(req[p].header)
      /\ \E u \in users : u.id = t.tokenable_id /\ u.status
      => /\ now < t.created_at + Lifetime => req[p].nextCalled
         /\ now >= t.created_at + Lifetime =>
              ~req[p].nextCalled /\ req[p].status = 401

\* The token strings issued so far whose row is gone: logged out.
LoggedOut ==
  {TokenPool[i] : i \in 1..(nextTokenId - 1)} \ {t.token : t \in tokens}

\* C5, first part: a request carrying a logged-out token is answered 401
\* (the answer 200 is that of the logout that removed the row).
C5_RevokedRejected ==
  \A p \in Procs :
    /\ req[p].pc = "done"
    /\ req[p].kind \in {"protected", "logout"}
    /\ WellFormed(req[p].header)
    /\ Bearer(req[p].header) \in LoggedOut
    => \/ req[p].status = 401 /\ ~req[p].nextCalled
       \/ req[p].kind = "logout" /\ req[p].status = 200

\* C5, second part: the next login of the user that logged out with X, once
\* it has passed the active check, is answered 200 with a token other than X.
C5_NextLogin(p) ==
  StepFrom(p, "l_create") =>
    \A h \in lastLogout :
      h[1] = The(req[p].user).id =>
        /\ req'[p].status = 200
        /\ req'[p].respToken # {}
        /\ req'[p].respToken # {h[2]}

\* C5: after a logout with token X answered 200, every later request
\* carrying X is answered 401 and the next login of the same active user is
\* answered 200 with a new token.
C5_SessionCycle ==
  /\ []C5_RevokedRejected
  /\ [][\A p \in Procs : C5_NextLogin(p)]_vars

\* The rows of a token table other than the row holding this token string.
OtherRows(toks, token) == {t \in toks : t.token # token}

\* C6: a logout request changes no token row other than the row whose token
\* string it carries, changes no user row, and its destroy leaves no row
\* with that token string.
C6_LogoutStep(p) ==
  /\ req'[p] # req[p] /\ req'[p].kind = "logout" /\ WellFormed(req'[p].header)
       => /\ OtherRows(tokens', Bearer(req'[p].header))
               = OtherRows(tokens, Bearer(req'[p].header))
          /\ users' = users
  /\ StepFrom(p, "a_next") /\ req[p].kind = "logout"
       => /\ req'[p].status = 200
          /\ tokens' = OtherRows(tokens, Bearer(req[p].header))

C6_LogoutFrame == [][\A p \in Procs : C6_LogoutStep(p)]_vars

\* C6 witness: a logout has removed its row while another row of the same
\* user stays in the table.
C6_Witness ==
  \E p \in Procs :
    /\ req[p].kind = "logout" /\ req[p].pc = "done" /\ req[p].status = 200
    /\ Bearer(req[p].header) \in LoggedOut
    /\ \E t \in tokens : t.tokenable_id = The(req[p].user).id

\* Two characters that differ at most in letter case (stated apart from
\* toLowerCase).
SameLetter(a, b) == a = b \/ {a, b} \in {{"a", "A"}, {"b", "B"}}

\* Two emails equal up to letter case.
SameEmail(a, b) ==
  Len(a) = Len(b) /\ \A i \in 1..Len(a) : SameLetter(a[i], b[i])

\* The user rows a registration with this email and username collides with.
Duplicates(email, username) ==
  {u \in users : SameEmail(u.email, email) \/ u.username = username}

\* C7: a registration that passed the gate and the validation, whose email
\* and username are not present, finds no existing user; its create step
\* then adds exactly one user row (the lower-cased email, the username), adds
\* no token row, and answers 201 with the profile and no token.
C7_RegisterStep(p) ==
  /\ StepFrom(p, "idle") /\ req'[p].pc = "r_create"
       /\ Duplicates(req'[p].email, req'[p].username) = {}
       => req'[p].existing = {}
  /\ StepFrom(p, "r_create") /\ req[p].existing = {}
       /\ Duplicates(req[p].email, req[p].username) = {}
       => /\ \E u \in users' \ users :
               /\ users' = users \cup {u}
               /\ u.email = toLowerCase(req[p].email)
               /\ u.username = req[p].username
               /\ req'[p].profile = {u.id}
          /\ tokens' = tokens
          /\ req'[p].status = 201
          /\ req'[p].respToken = {}

C8_DuplicateStep(p) ==
  /\ StepFrom(p, "idle") /\ req'[p].pc = "r_create"
       /\ Duplicates(req'[p].email, req'[p].username) # {}
       => /\ req'[p].existing # {}
          /\ users' = users /\ tokens' = tokens
  /\ StepFrom(p, "r_create") /\ req[p].existing # {}
       => /\ req'[p].status = 409
          /\ users' = users /\ tokens' = tokens

UniqueUsers ==
  \A u, v \in users :
    u # v => ~SameEmail(u.email, v.email) /\ u.username # v.username

\* The insert of a registration that lost the race: its check found no
\* user, a colliding row was stored since; it is answered 409 and stores
\* nothing.
C9_LosingInsert(p) ==
  StepFrom(p, "r_create") /\ req[p].existing = {}
    /\ Duplicates(req[p].email, req[p].username) # {}
    => req'[p].status = 409 /\ users' = users

\* C9: in every reachable state no two user rows share a case-folded email
\* or a username, also when registrations interleave between the existence
\* check and the insert; the losing insert is answered 409, not 500.
C9_UniqueUsers ==
  /\ []UniqueUsers
  /\ [][\A p \in Procs : C9_LosingInsert(p)]_vars

\* C9 witness: a registration whose check found no user is about to insert
\* while a colliding row, stored by the winner, is in the table.
C9_Witness ==
  \E p \in Procs :
    /\ req[p].pc = "r_create" /\ req[p].existing = {}
    /\ Duplicates(req[p].email, req[p].username) # {}

\* The credential equals the configured, non-empty registration secret.
GatePasses(header) ==
  /\ regKey # {} /\ The(regKey) # <<>>
  /\ header = {BearerPrefix \o The(regKey)}

\* A registration request the server has started to answer: it reached the
\* register handler exactly when its credential passes the gate, and was
\* otherwise answered at once with an error status.
C10_GateDecision ==
  \A p \in Procs : req[p].kind = "register" =>
    /\ req[p].nextCalled <=> GatePasses(req[p].header)
    /\ ~req[p].nextCalled =>
         req[p].pc = "done" /\ req[p].status \in {401, 403, 500}

SecretConfigured == regKey # {} /\ The(regKey) # <<>>

\* The header is absent or empty, does not start with "Bearer ", or carries
\* nothing after it.
NoCredential(header) ==
  \/ header = {}
  \/ LET h == The(header) IN
       \/ Len(h) <= Len(BearerPrefix)
       \/ \E i \in 1..Len(BearerPrefix) : h[i] # BearerPrefix[i]

\* The characters after "Bearer ".
Credential(header) ==
  [i \in 1..(Len(The(header)) - Len(BearerPrefix)) |->
     The(header)[i + Len(BearerPrefix)]]

Matching(email) == {u \in users : SameEmail(u.email, email)}

\* A login that passed the validation and has been answered.
LoginAnswered(p) ==
  req[p].kind = "login" /\ req[p].pc = "done" /\ req[p].status # 400

\* The steps of a login whose email matches no user: the lookup finds
\* nothing, the answer is 404, and neither table changes.
C13_UnknownStep(p) ==
  /\ StepFrom(p, "idle") /\ req'[p].pc = "l_save"
       /\ Matching(req'[p].email) = {}
       => req'[p].user = {} /\ users' = users /\ tokens' = tokens
  /\ StepFrom(p, "l_save") /\ req[p].user = {}
       => /\ req'[p].status = 404 /\ req'[p].success = {FALSE}
          /\ req'[p].respToken = {}
          /\ users' = users /\ tokens' = tokens

C14_RejectedStep(p) ==
  /\ req'[p] # req[p] /\ req'[p].kind = "login"
       /\ ~(req[p].pc = "l_create" /\ req'[p].status = 200)
       => tokens' = tokens
  /\ StepFrom(p, "l_create") /\ req'[p].status = 409
       => /\ tokens' = tokens
          /\ req'[p].respToken = {}
          /\ \E t \in LiveTokens(tokens', now', The(req[p].user).id) :
               req'[p].sessionCreatedAt = {t.created_at}

\* A protected request carrying a live token of an existing, active user is
\* handed on.
C14_LiveTokenAccepted ==
  \A p \in Procs : Decided(p) /\ WellFormed(req[p].header) =>
    \A t \in tokens :
      /\ t.token = Bearer(req[p].header)
      /\ t.expires_at # {} /\ The(t.expires_at) > now
      /\ \E u \in users : u.id = t.tokenable_id /\ u.status
      => req[p].nextCalled /\ req[p].attached

\* C14: a login rejected because the user has a live token deletes and
\* modifies no token row, the live token keeps being accepted by
\* authenticate until its expiry or its logout, and sessionCreatedAt in the
\* 409 response is the creation time of that user's live token.
C14_NoSilentSupersede ==
  /\ []C14_LiveTokenAccepted
  /\ [][\A p \in Procs : C14_RejectedStep(p)]_vars

\* C14 witness: a login has been answered 409 and the live token it names
\* is in the table, past its creation instant.
C14_Witness ==
  \E p \in Procs :
    /\ req[p].kind = "login" /\ req[p].pc = "done" /\ req[p].status = 409
    /\ \E t \in tokens :
         /\ req[p].sessionCreatedAt = {t.created_at}
         /\ The(t.expires_at) > now /\ now > t.created_at

\* The active check of a login for a deactivated user answers 403 and no
\* step of such a login up to that answer writes a token row.
C15_InactiveStep(p) ==
  /\ StepFrom(p, "l_stamp")
       /\ (\E u \in users : u.id = The(req[p].user).id /\ ~u.status)
       => /\ req'[p].status = 403 /\ req'[p].success = {FALSE}
          /\ req'[p].respToken = {}
          /\ tokens' = tokens
  /\ req'[p] # req[p] /\ req'[p].kind = "login"
       /\ req[p].pc \in {"idle", "l_save", "l_stamp"}
       => tokens' = tokens

\* C15: a login for a user whose active flag is off is answered 403 and
\* creates no token row, whether or not the user has a token.
C15_InactiveLoginForbidden ==
  /\ [](\A p \in Procs :
          LoginAnswered(p) /\ (\E u \in Matching(req[p].email) : ~u.status)
            => req[p].status = 403 /\ req[p].respToken = {})
  /\ [][\A p \in Procs : C15_InactiveStep(p)]_vars

\* C15 witness: a login of a deactivated user that owns a live token has
\* been answered 403.
C15_Witness ==
  \E p \in Procs :
    /\ LoginAnswered(p) /\ req[p].status = 403
    /\ \E u \in Matching(req[p].email) :
         ~u.status /\ LiveTokens(tokens, now, u.id) # {}

\* C16: authenticate answers a request whose token is in the store and not
\* expired, and whose owner is deactivated, with 403, not with the 401 of a
\* missing, unknown or expired token.
C16_DeactivatedForbidden ==
  \A p \in Procs : Decided(p) /\ WellFormed(req[p].header) =>
    \A t \in tokens :
      /\ t.token = Bearer(req[p].header)
      /\ t.expires_at # {} /\ The(t.expires_at) > now
      /\ \E u \in users : u.id = t.tokenable_id /\ ~u.status
      => req[p].status = 403 /\ ~req[p].nextCalled

\* A request to a route behind authenticate.
Guarded(r) == r.kind \in {"protected", "logout"}

\* The steps of a request whose bearer string is not in the token store:
\* the lookup finds nothing, the answer is 401, and neither table changes.
C17_UnknownStep(p) ==
  /\ StepFrom(p, "idle") /\ Guarded(req'[p]) /\ req'[p].pc = "a_user"
       /\ (\A t \in tokens : t.token # Bearer(req'[p].header))
       => req'[p].tokenRecord = {} /\ users' = users /\ tokens' = tokens
  /\ StepFrom(p, "a_user") /\ req[p].tokenRecord = {}
       => /\ req'[p].pc = "done"
          /\ req'[p].status = 401 /\ req'[p].success = {FALSE}
          /\ ~req'[p].nextCalled /\ ~req'[p].attached
          /\ users' = users /\ tokens' = tokens

\* C17: a protected request carrying a bearer string that is not in the
\* token store is answered 401 with success false, the downstream handler
\* is not invoked, and no token row or user row is created, updated or
\* deleted.
C17_UnknownTokenRejected ==
  /\ [](\A p \in Procs :
          /\ Decided(p) /\ WellFormed(req[p].header)
          /\ \A t \in tokens : t.token # Bearer(req[p].header)
          => /\ req[p].status = 401 /\ req[p].success = {FALSE}
             /\ ~req[p].nextCalled /\ ~req[p].attached)
  /\ [][\A p \in Procs : C17_UnknownStep(p)]_vars

\* C17 witness: a request with a bearer string no row holds has been
\* answered 401 while the table holds another token.
C17_Witness ==
  \E p \in Procs :
    /\ Decided(p) /\ WellFormed(req[p].header) /\ req[p].status = 401
    /\ \A t \in tokens : t.token # Bearer(req[p].header)
    /\ tokens # {}

\* C18: a request to a route behind authenticate with no Authorization
\* header, with a header not starting with "Bearer ", or with nothing after
\* the prefix is answered 401 with success false in the step that receives
\* it, before any store read, and the downstream handler is not invoked.
C18_Step(p) ==
  StepFrom(p, "idle") /\ Guarded(req'[p]) /\ NoCredential(req'[p].header)
    => /\ req'[p].pc = "done"
       /\ req'[p].status = 401 /\ req'[p].success = {FALSE}
       /\ ~req'[p].nextCalled /\ ~req'[p].attached
       /\ req'[p].tokenRecord = {} /\ req'[p].user = {}
       /\ users' = users /\ tokens' = tokens

C18_NoCredentialRejected == [][\A p \in Procs : C18_Step(p)]_vars

\* C18 witness: a logout request with "Bearer " and nothing after it has
\* been answered 401 while a token is stored.
C18_Witness ==
  \E p \in Procs :
    /\ req[p].kind = "logout" /\ req[p].pc = "done" /\ req[p].status = 401
    /\ req[p].header = {BearerPrefix}
    /\ tokens # {}

\* C19: when authenticate finds the token past its expiry it answers 401
\* and leaves the token row as it was, neither deleted nor with a new
\* last_used_at; the steps before the expiry check write nothing either.
C19_Step(p) ==
  /\ StepFrom(p, "a_check") /\ req[p].user # {}
       /\ (LET rec == The(req[p].tokenRecord) IN
             rec.expires_at # {} /\ now > The(rec.expires_at))
       => /\ req'[p].status = 401 /\ req'[p].success = {FALSE}
          /\ ~req'[p].nextCalled
          /\ tokens' = tokens /\ users' = users
  /\ req'[p] # req[p] /\ Guarded(req'[p]) /\ req[p].pc \in {"idle", "a_user"}
       => tokens' = tokens /\ users' = users

C19_ExpiredRowUntouched == [][\A p \in Procs : C19_Step(p)]_vars

\* C19 witness: a request with an expired token has been answered 401 and
\* the row is in the table with the last_used_at of an earlier instant.
C19_Witness ==
  \E p \in Procs :
    /\ Decided(p) /\ WellFormed(req[p].header) /\ req[p].status = 401
    /\ \E t \in tokens :
         /\ t.token = Bearer(req[p].header)
         /\ now > The(t.expires_at)
         /\ \E at \in t.last_used_at : at < now
         /\ \E u \in users : u.id = t.tokenable_id /\ u.status

\* The token rows a user owns.
OwnedBy(toks, userId) == {t \in toks : t.tokenable_id = userId}

\* C20: after a successful login of user u the only token row u owns is the
\* newly issued one: rows of earlier sessions are destroyed when a new login
\* supersedes them.
C20_LoginSupersedes ==
  [][\A p \in Procs :
       StepFrom(p, "l_create") /\ req'[p].status = 200 =>
         \A t \in OwnedBy(tokens', The(req[p].user).id) :
           req'[p].respToken = {t.token}]_vars

\* C21: a GET to /auth/status or /auth/profile carrying the opaque token a
\* successful login returned in data.token, while the token is unexpired
\* and its owner active, is answered 200 with success true and the profile
\* of the token's owner.
C21_StatusWithLoginToken ==
  \A p \in Procs :
    /\ req[p].kind \in {"status", "profile"} /\ req[p].pc = "done"
    /\ WellFormed(req[p].header)
    => \A t \in tokens :
         /\ t.token = Bearer(req[p].header)
         /\ t.name = "API Login"
         /\ ~Expired(t)
         /\ \E u \in users : u.id = t.tokenable_id /\ isActive(u)
         => /\ req[p].status = 200 /\ req[p].success = {TRUE}
            /\ req[p].profile = {t.tokenable_id}

\* A request through optionalAuth.
Soft(r) == r.kind = "optional"

\* The steps of a request through optionalAuth: no step sends a response,
\* next() is called in the step that ends the request and in no other, and a
\* request one of whose checks failed (no bearer string, unknown or expired
\* token, missing or deactivated owner, a store operation that threw) ends
\* with no identity attached.
C22_Step(p) ==
  req'[p] # req[p] /\ Soft(req'[p]) =>
    /\ req'[p].status = 0 /\ req'[p].success = {}
    /\ ~req[p].nextCalled \/ req[p].pc = "idle"
    /\ req'[p].nextCalled <=> req'[p].pc = "done"
    /\ req'[p].pc = "done" =>
         (req'[p].attached <=>
            /\ ~req'[p].failed
            /\ WellFormed(req'[p].header)
            /\ \E t \in tokens :
                 /\ t.token = Bearer(req'[p].header)
                 /\ ~Expired(t)
                 /\ \E u \in users : u.id = t.tokenable_id /\ isActive(u))

\* C22: for every request and every store state, store errors included,
\* optionalAuth sends no error response and calls next exactly once; when
\* any of its checks fails it proceeds with no identity attached.
C22_SoftNeverRejects == [][\A p \in Procs : C22_Step(p)]_vars

\* C22 witness: a request through optionalAuth with a stored, unexpired
\* token of an active owner met a store error and went on to the handler
\* with no identity.
C22_Witness ==
  \E p \in Procs :
    /\ Soft(req[p]) /\ req[p].pc = "done" /\ req[p].failed
    /\ req[p].nextCalled /\ ~req[p].attached /\ req[p].status = 0
    /\ \E t \in tokens :
         /\ t.token = Bearer(req[p].header) /\ ~Expired(t)
         /\ \E u \in users : u.id = t.tokenable_id /\ isActive(u)

\* The bearer string of the header is in the token store, the row is not
\* past its expiry and its owner exists and is active.
StoreValid(header) ==
  /\ WellFormed(header)
  /\ \E t \in tokens :
       /\ t.token = Bearer(header)
       /\ ~Expired(t)
       /\ \E u \in users : u.id = t.tokenable_id /\ isActive(u)

Behind(r) == r.kind \in {"protected", "logout", "status", "profile"}

\* The step in which authenticate attaches the identity and calls next():
\* the attached user is the owner of the attached token record, the record
\* holds the bearer string of the request, and the row of the store with
\* that string names the same owner.
C24_Step(p) ==
  Behind(req'[p]) /\ ~req[p].nextCalled /\ req'[p].nextCalled =>
    /\ req'[p].attached
    /\ req[p].user # {} /\ req[p].tokenRecord # {}
    /\ The(req[p].user).id = The(req[p].tokenRecord).tokenable_id
    /\ The(req[p].tokenRecord).token = Bearer(req[p].header)
    /\ \A t \in tokens :
         t.token = Bearer(req[p].header) => t.tokenable_id = The(req[p].user).id

\* C24: whenever a downstream handler runs behind authenticate, the attached
\* user is the owner of the attached token record and the attached token
\* string is that record's token string; a token issued to one user never
\* resolves to another.
C24_AttachedIsOwner ==
  /\ [](\A p \in Procs :
          Decided(p) /\ req[p].nextCalled =>
            /\ req[p].attached
            /\ The(req[p].user).id = The(req[p].tokenRecord).tokenable_id
            /\ The(req[p].tokenRecord).token = Bearer(req[p].header))
  /\ [][\A p \in Procs : C24_Step(p)]_vars

\* C24 witness: the handler of a protected request runs with user 2
\* attached, the owner of a token row whose own id is another number.
C24_Witness ==
  \E p \in Procs :
    /\ Decided(p) /\ req[p].nextCalled /\ req[p].attached
    /\ The(req[p].user).id = 2
    /\ The(req[p].tokenRecord).id # 2
    /\ \E t \in tokens :
         t.token = Bearer(req[p].header) /\ t.tokenable_id = 2

\* A step leaves every column of a surviving token row as it was, except
\* last_used_at and updated_at; a row that changed is the one a request
\* through authenticate or optionalAuth looked up with its bearer string,
\* and its last_used_at is the instant of the step.
C25_Step ==
  \A t \in tokens : \A t2 \in tokens' :
    t2.id = t.id =>
      /\ t2.expires_at = t.expires_at
      /\ [t2 EXCEPT !.last_used_at = t.last_used_at,
                    !.updated_at = t.updated_at] = t
      /\ t2 # t =>
           /\ t2.last_used_at = {now}
           /\ \E p \in Procs :
                /\ req'[p] # req[p]
                /\ Behind(req[p]) \/ Soft(req[p])
                /\ req[p].tokenRecord # {}
                /\ The(req[p].tokenRecord).id = t.id
                /\ t.token = Bearer(req[p].header)

\* C25: the lifetime is fixed, not sliding: no operation changes the
\* expires_at of an existing token row, authenticated requests change only
\* last_used_at and updated_at of the token they validated, and the expiry
\* of a row stays at issuance time + Lifetime however often the token is
\* used, so that a request after that instant is rejected.
C25_FixedLifetime ==
  /\ [](\A t \in tokens : t.expires_at = {t.created_at + Lifetime})
  /\ [](\A p \in Procs : \A t \in tokens :
          Decided(p) /\ WellFormed(req[p].header)
            /\ t.token = Bearer(req[p].header)
            /\ now > t.created_at + Lifetime
            => req[p].status = 401 /\ ~req[p].nextCalled)
  /\ [][C25_Step]_vars

\* C25 witness: a token used after its issuance, and used so recently that
\* a window sliding from the last use would still be open, is rejected
\* after issuance time + Lifetime.
C25_Witness ==
  \E p \in Procs : \E t \in tokens :
    /\ Decided(p) /\ WellFormed(req[p].header) /\ req[p].status = 401
    /\ t.token = Bearer(req[p].header)
    /\ \E at \in t.last_used_at : at > t.created_at /\ now <= at + Lifetime
    /\ now > t.created_at + Lifetime
    /\ \E u \in users : u.id = t.tokenable_id /\ isActive(u)

\* The step of login that calls createToken(user, 'API Login'): the table
\* gains exactly one row, with an id and a token string no row had, owned by
\* the user of the login, expiring one lifetime after the instant of the
\* step and last used at that instant; every other row stays as it was, and
\* the response carries the token string of the new row. No other step adds
\* a row.
C26_Step ==
  /\ \A p \in Procs :
       StepFrom(p, "l_create") /\ req'[p].status = 200 =>
         \E row \in tokens' :
           /\ row \notin tokens
           /\ tokens' = tokens \cup {row}
           /\ \A t \in tokens : t.id # row.id /\ t.token # row.token
           /\ row.tokenable_id = The(req[p].user).id
           /\ row.tokenable_type = UserType
           /\ row.name = "API Login"
           /\ row.expires_at = {now + Lifetime}
           /\ row.last_used_at = {now}
           /\ req'[p].respToken = {row.token}
  /\ (\E row \in tokens' : \A t \in tokens : t.id # row.id) =>
       \E p \in Procs : StepFrom(p, "l_create") /\ req'[p].status = 200

\* C26: each call of the token issuer createToken(user, label) adds exactly
\* one token row, owned by that user, with expires_at = issuance time + the
\* fixed session lifetime and last_used_at = issuance time, changes no other
\* row, and returns the token string stored in that row, the string login
\* returns as data.token.
C26_IssuerAddsOneRow == [][C26_Step]_vars

\* C26 witness: a login has been answered 200 with the token string of a
\* row of its user while the table holds a row of an earlier login too.
C26_Witness ==
  \E p \in Procs : \E t \in tokens :
    /\ req[p].kind = "login" /\ req[p].pc = "done" /\ req[p].status = 200
    /\ req[p].respToken = {t.token}
    /\ req[p].profile = {t.tokenable_id}
    /\ t.last_used_at = {t.created_at}
    /\ \E t0 \in tokens : t0.id < t.id

\* The step of the logout handler, which runs once authenticate has called
\* next(): the answer is 200 with success true whether or not a row with
\* the token was left to delete, and no row with the token remains.
C27_Step(p) ==
  StepFrom(p, "a_next") /\ req[p].kind = "logout" =>
    /\ req'[p].pc = "done"
    /\ req'[p].status = 200 /\ req'[p].success = {TRUE}
    /\ \A t \in tokens' : t.token # Bearer(req[p].header)

\* C27: when two logout requests with the same valid token both pass
\* authenticate before either deletes the row, both are answered 200 with
\* success true, the one whose delete affects zero rows included, and the
\* final store holds no row for that token.
C27_LogoutRace ==
  /\ [](\A p, q \in Procs :
          /\ p # q
          /\ req[p].kind = "logout" /\ req[q].kind = "logout"
          /\ req[p].pc = "done" /\ req[q].pc = "done"
          /\ req[p].nextCalled /\ req[q].nextCalled
          /\ req[p].header = req[q].header
          => /\ req[p].status = 200 /\ req[q].status = 200
             /\ req[p].success = {TRUE} /\ req[q].success = {TRUE}
             /\ \A t \in tokens : t.token # Bearer(req[p].header))
  /\ [][\A p \in Procs : C27_Step(p)]_vars

\* C27 witness: two logout requests with the same token have both passed
\* authenticate and both been answered 200; the row is gone.
C27_Witness ==
  \E p, q \in Procs :
    /\ p # q
    /\ req[p].kind = "logout" /\ req[q].kind = "logout"
    /\ req[p].pc = "done" /\ req[q].pc = "done"
    /\ req[p].header = req[q].header
    /\ req[p].status = 200 /\ req[q].status = 200
    /\ \A t \in tokens : t.token # Bearer(req[p].header)

\* The step in which a store operation of authenticate throws: the request
\* ends there with 401 and success false, nothing is attached, next() is not
\* called, and the tables are as before.
C28_Step(p) ==
  Behind(req'[p]) /\ req'[p].failed /\ req'[p] # req[p] =>
    /\ req'[p].pc = "done"
    /\ req'[p].status = 401 /\ req'[p].success = {FALSE}
    /\ ~req'[p].attached /\ ~req'[p].nextCalled
    /\ req'[p].user = {} /\ req'[p].tokenRecord = {}
    /\ users' = users /\ tokens' = tokens

\* C28: if a token-store or user-store operation throws while authenticate
\* handles a request, the request is answered with an authentication error,
\* no identity is attached and the downstream handler is not invoked.
C28_DenyOnStoreFailure ==
  /\ [](\A p \in Procs :
          Behind(req[p]) /\ req[p].failed =>
            /\ req[p].pc = "done" /\ req[p].status = 401
            /\ ~req[p].attached /\ ~req[p].nextCalled)
  /\ [][\A p \in Procs : C28_Step(p)]_vars

\* C28 witness: a protected request whose token the store would accept has
\* been answered 401 because a store operation threw after the first
\* last_used_at update.
C28_Witness ==
  \E p \in Procs :
    /\ Decided(p) /\ req[p].failed /\ req[p].status = 401
    /\ StoreValid(req[p].header)
    /\ \E t \in tokens :
         t.token = Bearer(req[p].header) /\ t.last_used_at = {now}
           /\ t.created_at < now

\* The token rows a step created, changed or removed.
Touched == (tokens \ tokens') \cup (tokens' \ tokens)

\* Every row a step touches belongs to the user the acting request stands
\* for: the user with the email of a login, or the owner of the row that
\* holds the bearer string of a request through authenticate, optionalAuth
\* or logout, and then the touched row is that very row.
C29_Step ==
  \A t \in Touched :
    \E p \in Procs :
      /\ req'[p] # req[p]
      /\ \/ /\ req[p].kind = "login"
            /\ \E u \in Matching(req[p].email) : t.tokenable_id = u.id
         \/ /\ Behind(req[p]) \/ Soft(req[p])
            /\ \E t0 \in tokens :
                 /\ t0.token = Bearer(req[p].header)
                 /\ t0.id = t.id
                 /\ t0.tokenable_id = t.tokenable_id

\* C29: in any sequence of login, authenticated request, optional-auth
\* request and logout operations, an operation performed with one user's
\* email or token never creates, updates or deletes a token row owned by
\* another user; the validator only updates the row of the token it looked
\* up.
C29_NoCrossUserMutation == [][C29_Step]_vars

\* C29 witness: a request with a token of user 1 has been accepted and has
\* stamped that row, while a row of user 2 keeps an earlier last_used_at.
C29_Witness ==
  \E p \in Procs : \E t1, t2 \in tokens :
    /\ Decided(p) /\ req[p].nextCalled
    /\ t1.token = Bearer(req[p].header)
    /\ t1.tokenable_id = 1 /\ t1.last_used_at = {now}
    /\ t2.tokenable_id = 2
    /\ \E at \in t2.last_used_at : at < now

\* The bearer string of the header is in the token store and no user row
\* has the id the row names as its owner.
Orphaned(header) ==
  /\ WellFormed(header)
  /\ \E t \in tokens :
       /\ t.token = Bearer(header)
       /\ \A u \in users : u.id # t.tokenable_id

\* The steps of a request through authenticate whose token is orphaned: the
\* lookups write nothing, and the step that finds the owner missing answers
\* 401 and leaves both tables as they were.
C31_Step(p) ==
  /\ req'[p] # req[p] /\ Behind(req'[p]) /\ Orphaned(req'[p].header)
       => tokens' = tokens /\ users' = users
  /\ StepFrom(p, "a_check") /\ req[p].user = {}
       => /\ req'[p].pc = "done"
          /\ req'[p].status = 401 /\ req'[p].success = {FALSE}
          /\ ~req'[p].nextCalled /\ ~req'[p].attached

\* C31: an orphaned token, whose row exists while the row of its owner does
\* not, is rejected by authenticate with 401, and the token row is neither
\* deleted nor updated by that request.
C31_OrphanRejected ==
  /\ [](\A p \in Procs :
          Behind(req[p]) /\ req[p].pc = "done" /\ Orphaned(req[p].header)
            => /\ req[p].status = 401 /\ req[p].success = {FALSE}
               /\ ~req[p].nextCalled /\ ~req[p].attached)
  /\ [][\A p \in Procs : C31_Step(p)]_vars

\* C31 witness: a request with an unexpired token whose owner was deleted
\* has been answered 401 and the row is in the table as the login wrote it.
C31_Witness ==
  \E p \in Procs : \E t \in tokens :
    /\ Decided(p) /\ Orphaned(req[p].header) /\ req[p].status = 401
    /\ t.token = Bearer(req[p].header)
    /\ ~Expired(t)
    /\ t.last_used_at = {t.created_at} /\ t.created_at < now

\* No two token rows hold the same token string.
UniqueTokens ==
  \A t1, t2 \in tokens : t1.token = t2.token => t1 = t2

\* The step of login that calls createToken: either the table gains one row
\* whose string no row held, every other row staying as it was, and the
\* login is answered 200 with that string; or the string drawn is in the
\* table, the insert fails, the table stays as it was and the login ends
\* there with 500, without a second draw.
C32_Step(p) ==
  StepFrom(p, "l_create") /\ req[p].existing = {} =>
    /\ req'[p].pc = "done"
    /\ \/ /\ req'[p].status = 200
          /\ \E row \in tokens' :
               /\ tokens' = tokens \cup {row}
               /\ \A t \in tokens : t.token # row.token /\ t.id # row.id
               /\ req'[p].respToken = {row.token}
       \/ /\ req'[p].status = 500 /\ req'[p].success = {FALSE}
          /\ req'[p].respToken = {}
          /\ tokens' = tokens
          /\ \E t \in tokens : t.token \in RandomTokens

\* C32: token strings are unique in the store: in every reachable state no
\* two token rows hold the same token string, and createToken never
\* overwrites or duplicates an existing row; a collision makes the insert
\* fail, without retry.
C32_TokenStringsUnique ==
  /\ []UniqueTokens
  /\ [][\A p \in Procs : C32_Step(p)]_vars

\* C32 witness: a login drew a string that a row of the other user holds;
\* its insert failed, it has been answered 500 and its user owns no row.
C32_Witness ==
  \E p \in Procs :
    /\ req[p].kind = "login" /\ req[p].pc = "done" /\ req[p].status = 500
    /\ req[p].failed
    /\ tokens # {}
    /\ \E u \in Matching(req[p].email) : OwnedBy(tokens, u.id) = {}

C33_RegisterStep(p) ==
  req'[p] # req[p] /\ req'[p].kind = "register" => tokens' = tokens

C34_SameLiveness ==
  \A u \in users :
    hasActiveSession(u.id) # {}
      <=> \E t \in tokens :
            /\ t.tokenable_id = u.id /\ t.tokenable_type = UserType
            /\ ~Expired(t)

\* The bearer string of the header is in the token store, the row is not
\* past its expiry and its owner exists and is deactivated.
Deactivated(header) ==
  /\ WellFormed(header)
  /\ \E t \in tokens :
       /\ t.token = Bearer(header)
       /\ ~Expired(t)
       /\ \E u \in users : u.id = t.tokenable_id /\ ~isActive(u)

\* The steps of a request through authenticate with an unexpired token of a
\* deactivated owner: the user table stays as it was, every token row but
\* the one with the bearer string stays as it was, and that row changes in
\* last_used_at and updated_at only, which become the instant of the step.
C35_Step(p) ==
  req'[p] # req[p] /\ Behind(req'[p]) /\ Deactivated(req'[p].header) =>
    /\ users' = users
    /\ \A t \in tokens :
         IF t.token = Bearer(req'[p].header)
           THEN tokens' \ tokens \subseteq
                  {[t EXCEPT !.last_used_at = {now}, !.updated_at = now]}
           ELSE t \in tokens'
    /\ Cardinality(tokens') = Cardinality(tokens)

\* C35: authenticate updates last_used_at before it checks the owner's
\* active flag: a request with an existing, unexpired token of a deactivated
\* user is rejected, yet the token's last_used_at is set to the request
\* time; no other field or row changes.
C35_TouchBeforeActiveCheck ==
  /\ [](\A p \in Procs : \A t \in tokens :
          /\ Behind(req[p]) /\ req[p].pc = "done" /\ ~req[p].failed
          /\ Deactivated(req[p].header)
          /\ t.token = Bearer(req[p].header)
          => /\ req[p].status = 401 /\ ~req[p].nextCalled /\ ~req[p].attached
             /\ t.last_used_at = {now})
  /\ [][\A p \in Procs : C35_Step(p)]_vars

\* C35 witness: a request with the unexpired token of a deactivated user,
\* made after the login, has been answered 401 and the row carries the
\* instant of the request as last_used_at.
C35_Witness ==
  \E p \in Procs : \E t \in tokens :
    /\ Decided(p) /\ Deactivated(req[p].header) /\ req[p].status = 401
    /\ ~req[p].failed
    /\ t.token = Bearer(req[p].header)
    /\ t.last_used_at = {now} /\ t.created_at < now
    /\ t.expires_at = {t.created_at + Lifetime}

\* C36: logout takes effect for requests in flight: once a logout of a
\* token has been answered with success, no request carrying that token
\* reaches a downstream handler afterwards, not even a request whose token
\* lookup ran before the logout deleted the row.
C36_LogoutStopsInFlight ==
  [][\A p \in Procs :
       ~req[p].nextCalled /\ req'[p].nextCalled /\ req'[p].kind = "protected"
         => \A h \in lastLogout : h[2] # Bearer(req'[p].header)]_vars

\* The request of p is inside authenticate, between two of its awaits.
InAuthenticate(p) ==
  Behind(req[p]) /\ req[p].pc \in {"a_user", "a_check", "a_active", "a_next"}

\* A step of a request through authenticate: while the middleware runs no
\* response has been sent and next() has not been called; the step that
\* sends a response or calls next() ends the middleware; and what it sent
\* or called stays as it is until the request is off the record.
C37_Step(p) ==
  /\ req'[p] # req[p] /\ Behind(req'[p]) /\ req'[p].pc \notin {"done", "s_user"}
       => req'[p].status = 0 /\ ~req'[p].nextCalled /\ ~req'[p].attached
  /\ req'[p] # req[p] /\ Behind(req[p]) /\ req[p].pc = "done"
       => req'[p] = Idle

\* C37: every request entering authenticate ends in exactly one outcome:
\* either one error response is sent and next is never called, or next is
\* called once and the middleware sends no response; no path sends a
\* response and also calls next, and no path does neither: between two
\* awaits a request always has a step to take.
C37_OneOutcome ==
  /\ [](\A p \in Procs :
          Behind(req[p]) /\ req[p].pc = "done" =>
            \/ /\ ~req[p].nextCalled /\ ~req[p].attached
               /\ req[p].status = 401 /\ req[p].success = {FALSE}
            \/ /\ req[p].nextCalled /\ req[p].attached
               /\ req[p].kind = "protected" => req[p].status = 0)
  /\ [](\A p \in Procs :
          InAuthenticate(p) =>
            ENABLED (\/ AuthUser(p) \/ AuthCheck(p) \/ AuthActive(p)
                     \/ AuthNext(p) \/ Logout(p) \/ StatusHandler(p)))
  /\ [][\A p \in Procs : C37_Step(p)]_vars

\* C37 witness: a protected request made after the login has reached its
\* handler through both last_used_at updates, with an identity attached and
\* no response of the middleware.
C37_Witness ==
  \E p \in Procs :
    /\ Decided(p) /\ req[p].nextCalled /\ req[p].status = 0
    /\ req[p].attached
    /\ \E t \in tokens : t.token = Bearer(req[p].header) /\ t.last_used_at = {now}
                           /\ t.created_at < now

\* The user rows apart from the one with this id.
OtherUsers(us, id) == {u \in us : u.id # id}

\* The steps of a login. A login that fails validation or finds no user
\* leaves the user table as it was. A login that finds its user saves the
\* supplied name and avatar and nothing else, whatever the active flag. The
\* next step answers 403 for a deactivated user and writes nothing, so that
\* the saved name and avatar stay and last-login is as before; for an active
\* user it sets last-login to the instant of the step and changes nothing
\* else. The steps after it, which end in 200 or 409, leave the user table
\* as it was.
C38_Step(p) ==
  /\ StepFrom(p, "idle") /\ req'[p].kind = "login" => users' = users
  /\ StepFrom(p, "l_save") =>
       IF req[p].user = {}
         THEN req'[p].status = 404 /\ users' = users
         ELSE LET id == The(req[p].user).id IN
           /\ req'[p].pc = "l_stamp"
           /\ OtherUsers(users', id) = OtherUsers(users, id)
           /\ \A u \in users : u.id = id =>
                \E u2 \in users' :
                  /\ u2 = [u EXCEPT !.name = u2.name, !.imageUrl = u2.imageUrl]
                  /\ u2.name = IF req[p].name # "" THEN req[p].name ELSE u.name
                  /\ u2.imageUrl = IF req[p].imageUrl # "" THEN req[p].imageUrl
                                   ELSE u.imageUrl
  /\ StepFrom(p, "l_stamp") =>
       LET inst == The(req[p].user) IN
         IF \E u \in users : u.id = inst.id /\ ~u.status
           THEN /\ req'[p].status = 403 /\ users' = users
                /\ \E u \in users :
                     u.id = inst.id /\ u.name = inst.name
                       /\ u.imageUrl = inst.imageUrl
           ELSE /\ req'[p].pc = "l_session"
                /\ OtherUsers(users', inst.id) = OtherUsers(users, inst.id)
                /\ \A u \in users : u.id = inst.id =>
                     [u EXCEPT !.lastLogin = {now}] \in users'
  /\ StepFrom(p, "l_session") \/ StepFrom(p, "l_create") =>
       /\ users' = users
       /\ req'[p].pc = "done" => req'[p].status \in {200, 409}

\* C38: a login stamps the user's last-login time if and only if the user
\* was found and is active, whether the login then succeeds or is rejected
\* with Conflict; logins answered with a validation error, NotFound or
\* Forbidden leave last-login unchanged, and a Forbidden login still
\* persists the supplied name and avatar.
C38_LastLoginStamp ==
  /\ [](\A p \in Procs :
          req[p].kind = "login" /\ req[p].pc = "done"
            /\ req[p].status \in {200, 409}
            => \E u \in Matching(req[p].email) : u.lastLogin = {now})
  /\ [][\A p \in Procs : C38_Step(p)]_vars

\* C38 witness: a login of a deactivated user that supplied a new name has
\* been answered 403; the user row carries the new name and no last-login.
C38_Witness ==
  \E p \in Procs :
    /\ req[p].kind = "login" /\ req[p].pc = "done" /\ req[p].status = 403
    /\ \E u \in Matching(req[p].email) :
         u.name = "N2" /\ u.imageUrl = "i2" /\ u.lastLogin = {} /\ ~u.status

====
